---- MODULE Spec2Model ----
(***************************************************************************)
(* Walker population core of pauxy / afqmcpy.                              *)
(*                                                                         *)
(*  - Walkers.comb (population control) across MPI ranks: SpecComb, with  *)
(*    fair ranks SpecCombLive, with dead walkers SpecAlive                 *)
(*  - propagation of one walker (kinetic_direct, discrete_hubbard,         *)
(*    continuous_hubbard, reortho, set_walker_from_buffer), checkpoints    *)
(*    and wavefunction snapshots: SpecProp                                 *)
(*  - BackPropagation.update_uhf over the walkers of a rank: SpecBP        *)
(*  - the phaseless reweighting of the continuous schemes: SpecPhase       *)
(*  - FieldConfig.push / push_full: SpecField                              *)
(*  - reortho of the walker classes and Walkers.orthogonalise: SpecOrtho   *)
(*                                                                         *)
(* Floating point numbers of the comb are binary floats with a Prec-bit    *)
(* significand (numpy.float64 has 53), held as integers in units of        *)
(* 2^-Prec and rounded to nearest, ties to even, after every operation.    *)
(***************************************************************************)
EXTENDS Integers, Sequences, FiniteSets, TLC

VARIABLES
    size,       \* comm.size
    nwalkers,   \* qmc.nwalkers: walkers per rank
    fake,       \* isinstance(comm, FakeComm)
    walkers,    \* rank -> list of walkers (Walkers.walkers)
    nw,         \* rank -> Walkers.nw
    pc,         \* rank -> position in Walkers.comb
    gathered,   \* rank -> weights contributed to comm.Gather
    bc,         \* buffer of comm.Bcast / comm.bcast from root
    rdraw,      \* the offset r drawn by rank 0 (units of 2^-Prec; -1: none yet)
    pix,        \* rank -> local parent_ix after Bcast
    msgs,       \* point-to-point messages in flight
    wbufs,      \* rank -> walker_buffers of the pass
    ri,         \* rank -> index of the receive loop
    pre,        \* rank -> walkers as they were when comb was called
    nsent,      \* rank -> number of isend calls posted in the pass
    pw,         \* the walker of the propagation model
    trial,      \* state.psi_trial (one column per spin, same for both)
    perr,       \* exception raised by the last propagation call
    plast,      \* record of the last propagation call
    hist,       \* the propagation calls made so far, in order
    free_projection, \* qmc option: free projection instead of phaseless
    h5,         \* the datasets of write_file: record of walker ix at ix + 1
    ph,         \* the phaseless reweighting of the continuous schemes
    fc,         \* a FieldConfig
    bp          \* BackPropagation and the walkers it is given

cvars == <<size, nwalkers, fake, walkers, nw, pc, gathered, bc, rdraw,
           pix, msgs, wbufs, ri, pre, nsent>>
evars == <<ph, fc, bp>>
pvars == <<pw, trial, perr, plast, hist, free_projection, h5, evars>>
vars == <<cvars, pvars>>

-----------------------------------------------------------------------------
(* Bounds *)

NRanks == 2
NWalkers == 4
MaxTotWalkers == 4
Prec == 3
MaxWeight == 2

-----------------------------------------------------------------------------
(* Floating point *)

RECURSIVE Pow2(_)
Pow2(n) == IF n = 0 THEN 1 ELSE 2 * Pow2(n - 1)

\* 1.0 in units of 2^-Prec
One == Pow2(Prec)

\* smallest e >= 0 with num/den < 2^(Prec+e): the exponent of the quantum
RECURSIVE FExp(_, _, _)
FExp(num, den, e) ==
    IF num < den * Pow2(Prec + e) THEN e ELSE FExp(num, den, e + 1)

\* num/den rounded to the nearest integer, ties to even
RoundHalfEven(num, den) ==
    LET q == num \div den
        rem == num % den
    IN  IF 2 * rem < den THEN q
        ELSE IF 2 * rem > den THEN q + 1
        ELSE IF q % 2 = 0 THEN q ELSE q + 1

\* the float nearest to num/den (num >= 0, den > 0), in units
Fl(num, den) ==
    LET e == FExp(num, den, 0)
    IN  RoundHalfEven(num, den * Pow2(e)) * Pow2(e)

FAdd(a, b) == Fl(a + b, 1)
FMul(a, b) == Fl(a * b, One)
FDivInt(a, n) == Fl(a, n)
FAbs(a) == IF a < 0 THEN -a ELSE a


-----------------------------------------------------------------------------
(* Walkers.comb: helpers *)

None == "none"

\* the weights a propagated walker may carry when comb is called (units)
WeightVals == {-One} \cup {k * One : k \in 0..MaxWeight}

ActiveRanks == 0..(size - 1)

\* qmc.ntot_walkers, the configured total population
ntot_walkers == nwalkers * size

\* Walkers.calculate_nwalkers: sum(w.alive for w in self.walkers)
calculate_nwalkers(ws) == Cardinality({i \in DOMAIN ws : ws[i].alive})

\* weights = numpy.array([abs(w.weight) for w in self.walkers])
LocalWeights(ws) == [i \in DOMAIN ws |-> FAbs(ws[i].weight)]

\* comm.Gather(weights, global_weights, root=0): rank-major concatenation
RECURSIVE GatherFrom(_, _)
GatherFrom(g, k) ==
    IF k >= size THEN <<>> ELSE g[k] \o GatherFrom(g, k + 1)

\* numpy.cumsum(global_weights): sequential float additions
RECURSIVE CumSumFrom(_, _, _)
CumSumFrom(ws, i, acc) ==
    IF i > Len(ws) THEN <<>>
    ELSE LET a == IF i = 1 THEN ws[1] ELSE FAdd(acc, ws[i])
         IN  <<a>> \o CumSumFrom(ws, i + 1, a)

CumSum(ws) == CumSumFrom(ws, 1, 0)

\* sum(global_weights): the builtin sum, 0 + w0 + w1 + ...
RECURSIVE SumFrom(_, _, _)
SumFrom(ws, i, acc) ==
    IF i > Len(ws) THEN acc ELSE SumFrom(ws, i + 1, FAdd(acc, ws[i]))

SumSeq(ws) == SumFrom(ws, 1, 0)

\* comb = [(i+r) * (total_weight/(ntarget)) for i in range(ntarget)]
Tooth(i, r, total_weight, ntarget) ==
    FMul(FAdd(i * One, r), FDivInt(total_weight, ntarget))

Teeth(r, total_weight, ntarget) ==
    [j \in 1..ntarget |-> Tooth(j - 1, r, total_weight, ntarget)]

\* mutant: the comparison comb[ic] <= cprobs[iw]
RECURSIVE CombLoopLe(_, _, _, _, _)
CombLoopLe(comb, cprobs, iw, ic, parent_ix) ==
    IF ic >= Len(comb) THEN [ok |-> TRUE, parent_ix |-> parent_ix]
    ELSE IF iw >= Len(cprobs) THEN [ok |-> FALSE, parent_ix |-> parent_ix]
    ELSE IF comb[ic + 1] <= cprobs[iw + 1]
         THEN CombLoopLe(comb, cprobs, iw, ic + 1,
                         [parent_ix EXCEPT ![iw + 1] = @ + 1])
         ELSE CombLoopLe(comb, cprobs, iw + 1, ic, parent_ix)

\* mutant: the walker index is advanced after every assigned tooth as well
RECURSIVE CombLoopAdvance(_, _, _, _, _)
CombLoopAdvance(comb, cprobs, iw, ic, parent_ix) ==
    IF ic >= Len(comb) THEN [ok |-> TRUE, parent_ix |-> parent_ix]
    ELSE IF iw >= Len(cprobs) THEN [ok |-> FALSE, parent_ix |-> parent_ix]
    ELSE IF comb[ic + 1] < cprobs[iw + 1]
         THEN CombLoopAdvance(comb, cprobs, iw + 1, ic + 1,
                              [parent_ix EXCEPT ![iw + 1] = @ + 1])
         ELSE CombLoopAdvance(comb, cprobs, iw + 1, ic, parent_ix)

\* the while loop of comb; iw and ic count from 0.  ok = FALSE is the
\* IndexError of cprobs[iw] with iw = len(cprobs)
RECURSIVE CombLoop(_, _, _, _, _)
CombLoop(comb, cprobs, iw, ic, parent_ix) ==
    IF ic >= Len(comb) THEN [ok |-> TRUE, parent_ix |-> parent_ix]
    ELSE IF iw >= Len(cprobs) THEN [ok |-> FALSE, parent_ix |-> parent_ix]
    ELSE IF comb[ic + 1] < cprobs[iw + 1]
         THEN CombLoop(comb, cprobs, iw, ic + 1,
                       [parent_ix EXCEPT ![iw + 1] = @ + 1])
         ELSE CombLoop(comb, cprobs, iw + 1, ic, parent_ix)

\* k copies of x
RECURSIVE Copies(_, _)
Copies(x, k) == IF k <= 0 THEN <<>> ELSE <<x>> \o Copies(x, k - 1)

\* [i//self.nw, i%self.nw] for global index i (from 0)
Address(i, nwk) == <<i \div nwk, i % nwk>>

\* mutant: w entries instead of w - 1 for every parent_ix[i] = w > 1
RECURSIVE SendFromOffByOne(_, _, _)
SendFromOffByOne(p, nwk, i) ==
    IF i >= Len(p) THEN <<>>
    ELSE (IF p[i + 1] > 1 THEN Copies(Address(i, nwk), p[i + 1]) ELSE <<>>)
         \o SendFromOffByOne(p, nwk, i + 1)

\* the send list: w - 1 entries for every parent_ix[i] = w > 1
RECURSIVE SendFrom(_, _, _)
SendFrom(p, nwk, i) ==
    IF i >= Len(p) THEN <<>>
    ELSE (IF p[i + 1] > 1 THEN Copies(Address(i, nwk), p[i + 1] - 1) ELSE <<>>)
         \o SendFrom(p, nwk, i + 1)

SendList(p, nwk) == SendFrom(p, nwk, 0)

\* mutant: every slot whose multiplicity is not 1 is a receive target
RECURSIVE RecvFromNotOne(_, _, _)
RecvFromNotOne(p, nwk, i) ==
    IF i >= Len(p) THEN <<>>
    ELSE (IF p[i + 1] # 1 THEN <<Address(i, nwk)>> ELSE <<>>)
         \o RecvFromNotOne(p, nwk, i + 1)

\* the recv list: one entry for every parent_ix[i] = 0
RECURSIVE RecvFrom(_, _, _)
RecvFrom(p, nwk, i) ==
    IF i >= Len(p) THEN <<>>
    ELSE (IF p[i + 1] = 0 THEN <<Address(i, nwk)>> ELSE <<>>)
         \o RecvFrom(p, nwk, i + 1)

RecvList(p, nwk) == RecvFrom(p, nwk, 0)

Min(a, b) == IF a < b THEN a ELSE b

\* zip(send, recv): pairs up to the shorter list
Pairs(p, nwk) ==
    LET s == SendList(p, nwk)
        r == RecvList(p, nwk)
    IN  [i \in 1..Min(Len(s), Len(r)) |-> [s |-> s[i], r |-> r[i]]]

\* Walkers.set_total_weight
set_total_weight(ws, tw) == [i \in DOMAIN ws |-> [ws[i] EXCEPT !.total_weight = tw]]

\* walker.get_buffer(): the serialised walker (weight, wavefunction state,
\* total weight)
get_buffer(w) == <<w.weight, w.id, w.total_weight>>

\* walker.set_buffer(buf): the slot takes the serialised walker's state
set_buffer(w, buf) ==
    [w EXCEPT !.weight = buf[1], !.id = buf[2], !.total_weight = buf[3]]

\* mutant: only walkers of positive weight are reset
ResetWeightsPositive(ws) ==
    [i \in DOMAIN ws |->
        IF ws[i].weight > 0 THEN [ws[i] EXCEPT !.weight = One] ELSE ws[i]]

\* for w in self.walkers: w.weight = 1.0
ResetWeights(ws) == [i \in DOMAIN ws |-> [ws[i] EXCEPT !.weight = One]]


-----------------------------------------------------------------------------
(* Walkers.comb: the pass, rank by rank *)

PropIdle ==
    /\ pw = None
    /\ trial = None
    /\ perr = None
    /\ plast = None
    /\ hist = <<>>
    /\ free_projection = FALSE
    /\ h5 = <<>>

PhaseIdle == ph = None
FieldIdle == fc = None
BPIdle == bp = None

\* Walkers.__init__ on every rank, with the weights the walkers carry when
\* population control is called
InitComb ==
    /\ PropIdle
    /\ PhaseIdle
    /\ FieldIdle
    /\ BPIdle
    /\ size \in 1..NRanks
    /\ nwalkers \in 1..NWalkers
    /\ size * nwalkers <= MaxTotWalkers
    /\ fake \in (IF size = 1 THEN BOOLEAN ELSE {FALSE})
    /\ \E wts \in [0..(size * nwalkers - 1) -> WeightVals] :
          walkers = [k \in 0..(size - 1) |->
                       [i \in 1..nwalkers |->
                          [weight |-> wts[k * nwalkers + i - 1],
                           id |-> k * nwalkers + i - 1,
                           total_weight |-> ntot_walkers * One,
                           alive |-> TRUE]]]
    /\ nw = [k \in 0..(size - 1) |-> calculate_nwalkers(walkers[k])]
    /\ pc = [k \in 0..(size - 1) |-> "idle"]
    /\ gathered = [k \in 0..(size - 1) |-> <<>>]
    /\ bc = [set |-> FALSE, parent_ix |-> <<>>, total_weight |-> 0]
    /\ rdraw = -1
    /\ pix = [k \in 0..(size - 1) |-> <<>>]
    /\ msgs = {}
    /\ wbufs = [k \in 0..(size - 1) |-> <<>>]
    /\ ri = [k \in 0..(size - 1) |-> 0]
    /\ pre = [k \in 0..(size - 1) |-> <<>>]
    /\ nsent = [k \in 0..(size - 1) |-> 0]

\* mutant: the single-walker branch sets the weight but does not return
CombStartNoReturn(k) ==
    /\ pc[k] = "idle"
    /\ pre' = [pre EXCEPT ![k] = walkers[k]]
    /\ walkers' = IF ntot_walkers = 1
                  THEN [walkers EXCEPT ![k][1].weight = One]
                  ELSE walkers
    /\ gathered' = [gathered EXCEPT ![k] = LocalWeights(walkers'[k])]
    /\ pc' = [pc EXCEPT ![k] = IF k = 0 THEN "gather" ELSE "bcast"]
    /\ UNCHANGED <<size, nwalkers, fake, nw, bc, rdraw, pix, msgs,
                   wbufs, ri, nsent, pvars>>

\* comb, lines 165-176: the local weights, the single-walker return, Gather
CombStart(k) ==
    /\ pc[k] = "idle"
    /\ pre' = [pre EXCEPT ![k] = walkers[k]]
    /\ IF ntot_walkers = 1
       THEN /\ walkers' = [walkers EXCEPT ![k][1].weight = One]
            /\ pc' = [pc EXCEPT ![k] = "done"]
            /\ UNCHANGED gathered
       ELSE /\ gathered' = [gathered EXCEPT ![k] = LocalWeights(walkers[k])]
            /\ pc' = [pc EXCEPT ![k] = IF k = 0 THEN "gather" ELSE "bcast"]
            /\ UNCHANGED walkers
    /\ UNCHANGED <<size, nwalkers, fake, nw, bc, rdraw, pix, msgs,
                   wbufs, ri, nsent, pvars>>

\* comb on rank 0, lines 177-191 and the root side of Bcast / bcast
RootBranch ==
    /\ pc[0] = "gather"
    /\ \A k \in ActiveRanks : gathered[k] # <<>>
    /\ \E r \in 0..(One - 1) :
          LET global_weights == GatherFrom(gathered, 0)
              total_weight == SumSeq(global_weights)
              cprobs == CumSum(global_weights)
              ntarget == nw[0] * size
              comb == Teeth(r, total_weight, ntarget)
              res == CombLoop(comb, cprobs, 0, 0,
                              [i \in 1..Len(global_weights) |-> 0])
          IN  /\ rdraw' = r
              /\ pix' = [pix EXCEPT ![0] = res.parent_ix]
              /\ IF res.ok
                 THEN /\ bc' = [set |-> TRUE, parent_ix |-> res.parent_ix,
                                total_weight |-> total_weight]
                      /\ pc' = [pc EXCEPT ![0] = "bcast"]
                 ELSE /\ bc' = bc
                      /\ pc' = [pc EXCEPT ![0] = "IndexError"]
    /\ UNCHANGED <<size, nwalkers, fake, walkers, nw, gathered, msgs,
                   wbufs, ri, pre, nsent, pvars>>

\* the indices i of zip(send, recv) whose source is rank k
MySends(prs, k) == {i \in DOMAIN prs : prs[i].s[1] = k}

\* walker_buffers of rank k: one buffer per pair it sends, in order
RECURSIVE BuffersFrom(_, _, _, _)
BuffersFrom(prs, ws, k, i) ==
    IF i > Len(prs) THEN <<>>
    ELSE (IF prs[i].s[1] = k THEN <<get_buffer(ws[prs[i].s[2] + 1])>> ELSE <<>>)
         \o BuffersFrom(prs, ws, k, i + 1)

\* the sends of rank k that isend accepts: those before its first send to a
\* destination that is no rank of the communicator (isend raises there)
Posted(prs, k) ==
    {i \in MySends(prs, k) :
        \A j \in MySends(prs, k) : prs[j].r[1] >= size => i < j}

\* comb, lines 195-218: Bcast, set_total_weight, the send and recv lists, and
\* the non-blocking sends of this rank (tags count from 0)
AfterBcast(k) ==
    /\ pc[k] = "bcast"
    /\ bc.set
    /\ LET ws == set_total_weight(walkers[k], bc.total_weight)
           prs == Pairs(bc.parent_ix, nw[k])
       IN  /\ pix' = [pix EXCEPT ![k] = bc.parent_ix]
           /\ walkers' = [walkers EXCEPT ![k] = ws]
           /\ wbufs' = [wbufs EXCEPT ![k] = BuffersFrom(prs, ws, k, 1)]
           /\ nsent' = [nsent EXCEPT ![k] =
                           IF fake THEN Cardinality(MySends(prs, k))
                           ELSE Cardinality(Posted(prs, k))]
           /\ msgs' = IF fake THEN msgs
                      ELSE msgs \cup
                           {[src |-> k, dst |-> prs[i].r[1], tag |-> i - 1,
                             buf |-> get_buffer(ws[prs[i].s[2] + 1])] :
                              i \in Posted(prs, k)}
           /\ pc' = [pc EXCEPT ![k] =
                        IF ~fake /\ Posted(prs, k) # MySends(prs, k)
                        THEN "MPIError" ELSE "recv"]
    /\ ri' = [ri EXCEPT ![k] = 0]
    /\ UNCHANGED <<size, nwalkers, fake, nw, gathered, bc, rdraw, pre,
                   pvars>>

\* the next index of the receive loop at which rank k has something to do
RECURSIVE NextMine(_, _, _)
NextMine(prs, k, i) ==
    IF i >= Len(prs) THEN Len(prs)
    ELSE IF fake \/ prs[i + 1].r[1] = k THEN i
    ELSE NextMine(prs, k, i + 1)

\* mutant: the FakeComm branch takes walker_buffers[-1] instead of
\* walker_buffers[i]
RecvStepLastBuffer(k) ==
    /\ pc[k] = "recv"
    /\ LET prs == Pairs(pix[k], nw[k])
           i == NextMine(prs, k, ri[k])
       IN  /\ i < Len(prs)
           /\ IF fake
              THEN /\ walkers' = [walkers EXCEPT ![k][prs[i + 1].r[2] + 1] =
                                     set_buffer(@, wbufs[k][Len(wbufs[k])])]
                   /\ UNCHANGED msgs
              ELSE \E m \in msgs :
                      /\ m.src = prs[i + 1].s[1]
                      /\ m.dst = k
                      /\ m.tag = i
                      /\ msgs' = msgs \ {m}
                      /\ walkers' = [walkers EXCEPT ![k][prs[i + 1].r[2] + 1] =
                                        set_buffer(@, m.buf)]
           /\ ri' = [ri EXCEPT ![k] = i + 1]
    /\ UNCHANGED <<size, nwalkers, fake, nw, pc, gathered, bc, rdraw,
                   pix, wbufs, pre, nsent, pvars>>

\* comb, lines 219-227: one receive of the second loop (blocking recv), the
\* iterations of other ranks' pairs being skipped
RecvStep(k) ==
    /\ pc[k] = "recv"
    /\ LET prs == Pairs(pix[k], nw[k])
           i == NextMine(prs, k, ri[k])
       IN  /\ i < Len(prs)
           /\ IF fake
              THEN /\ walkers' = [walkers EXCEPT ![k][prs[i + 1].r[2] + 1] =
                                     set_buffer(@, wbufs[k][i + 1])]
                   /\ UNCHANGED msgs
              ELSE \E m \in msgs :
                      /\ m.src = prs[i + 1].s[1]
                      /\ m.dst = k
                      /\ m.tag = i
                      /\ msgs' = msgs \ {m}
                      /\ walkers' = [walkers EXCEPT ![k][prs[i + 1].r[2] + 1] =
                                        set_buffer(@, m.buf)]
           /\ ri' = [ri EXCEPT ![k] = i + 1]
    /\ UNCHANGED <<size, nwalkers, fake, nw, pc, gathered, bc, rdraw,
                   pix, wbufs, pre, nsent, pvars>>

\* comb, lines 228-230: the receive loop is over; rs.wait() for every send of
\* this rank, then the rank enters the Barrier.  A send request may complete
\* as soon as the library has buffered the message, so the wait can return
\* whether or not the receiver has taken it.
WaitSends(k) ==
    /\ pc[k] = "recv"
    /\ LET prs == Pairs(pix[k], nw[k])
       IN  NextMine(prs, k, ri[k]) >= Len(prs)
    /\ pc' = [pc EXCEPT ![k] = "barrier"]
    /\ UNCHANGED <<size, nwalkers, fake, walkers, nw, gathered, bc,
                   rdraw, pix, msgs, wbufs, ri, pre, nsent, pvars>>

\* mutant: no Barrier before the weights are reset
BarrierResetAlone(k) ==
    /\ pc[k] = "barrier"
    /\ walkers' = [walkers EXCEPT ![k] = ResetWeights(walkers[k])]
    /\ pc' = [pc EXCEPT ![k] = "done"]
    /\ UNCHANGED <<size, nwalkers, fake, nw, gathered, bc, rdraw, pix,
                   msgs, wbufs, ri, pre, nsent, pvars>>

\* comb, lines 230-233: the Barrier is passed once every rank has entered it;
\* then every local weight is reset and comb returns
BarrierReset(k) ==
    /\ pc[k] = "barrier"
    /\ \A j \in ActiveRanks : pc[j] \in {"barrier", "done"}
    /\ walkers' = [walkers EXCEPT ![k] = ResetWeights(walkers[k])]
    /\ pc' = [pc EXCEPT ![k] = "done"]
    /\ UNCHANGED <<size, nwalkers, fake, nw, gathered, bc, rdraw, pix,
                   msgs, wbufs, ri, pre, nsent, pvars>>

NextComb ==
    \/ \E k \in ActiveRanks : CombStart(k)
    \/ RootBranch
    \/ \E k \in ActiveRanks : AfterBcast(k)
    \/ \E k \in ActiveRanks : RecvStep(k)
    \/ \E k \in ActiveRanks : WaitSends(k)
    \/ \E k \in ActiveRanks : BarrierReset(k)

SpecComb == InitComb /\ [][NextComb]_vars

\* what rank k does next (nothing for a k that is no rank of the run)
RankStep(k) ==
    /\ k \in ActiveRanks
    /\ \/ CombStart(k)
       \/ AfterBcast(k)
       \/ RecvStep(k)
       \/ WaitSends(k)
       \/ BarrierReset(k)

\* every rank is a running process: a rank that can take its next step, and
\* stays able to, takes it (a posted message stays until its receiver takes
\* it, a broadcast value stays set, a rank in the Barrier stays there).
\* Nothing is assumed of the tooth loop of rank 0.
SpecCombLive ==
    /\ InitComb
    /\ [][NextComb]_vars
    /\ \A k \in 0..(NRanks - 1) : WF_vars(RankStep(k))


-----------------------------------------------------------------------------
(* Claims about Walkers.comb *)

RECURSIVE IntSumFrom(_, _)
IntSumFrom(q, i) == IF i > Len(q) THEN 0 ELSE q[i] + IntSumFrom(q, i + 1)

IntSum(q) == IntSumFrom(q, 1)

\* what rank 0 gathered, and what it derives from it
GlobalWeights == GatherFrom(gathered, 0)
RootGathered == \A k \in ActiveRanks : gathered[k] # <<>>
RootRan == rdraw >= 0
NGlobal == size * nwalkers

\* the walker at global index g (from 0) before the pass and now
PreWalker(g) == pre[g \div nwalkers][(g % nwalkers) + 1]
NowWalker(g) == walkers[g \div nwalkers][(g % nwalkers) + 1]
AllDone == \A k \in ActiveRanks : pc[k] = "done"

\* C1: with ntot_walkers > 1 and a strictly positive global sum of |weight|,
\* for every offset r the tooth loop of rank 0 ends without an IndexError and
\* the multiplicities sum to ntarget = nw * comm.size.
C1_LoopCompletesAndSumsToTarget ==
    (RootRan /\ SumSeq(GlobalWeights) > 0) =>
        /\ pc[0] # "IndexError"
        /\ IntSum(pix[0]) = nw[0] * size

\* C2: once rank 0 has computed the assignment, parent_ix[k] is the number of
\* teeth (i + r) * total_weight / ntarget, i in 0..ntarget-1, that lie in
\* [cprobs[k-1], cprobs[k]), cprobs being the running sum of the gathered
\* |weight| values in rank-major order and cprobs[-1] being 0.
C2_MultiplicityCountsTeeth ==
    bc.set =>
        LET cprobs == CumSum(GlobalWeights)
            ntarget == nw[0] * size
            lo(k) == IF k = 1 THEN 0 ELSE cprobs[k - 1]
        IN  \A k \in 1..Len(GlobalWeights) :
               bc.parent_ix[k] =
                  Cardinality({i \in 0..(ntarget - 1) :
                      /\ lo(k) <= Tooth(i, rdraw, bc.total_weight, ntarget)
                      /\ Tooth(i, rdraw, bc.total_weight, ntarget) < cprobs[k]})

C2_Witness ==
    /\ bc.set
    /\ \E k \in 1..Len(bc.parent_ix) : bc.parent_ix[k] >= 2
    /\ \E k \in 1..Len(bc.parent_ix) : bc.parent_ix[k] = 0
    /\ \E k \in 1..Len(bc.parent_ix) : bc.parent_ix[k] = 1
    /\ rdraw > 0

\* C3: when comb has returned on all ranks (ntot_walkers > 1), every slot of
\* multiplicity >= 1 holds its own pre-comb walker state, every slot of
\* multiplicity 0 holds the pre-comb state of a walker of multiplicity > 1,
\* pre-comb walker g is held by exactly parent_ix[g] slots, and every rank
\* holds as many walkers as before.  (State: what the buffer carries apart
\* from the weight and total weight that the pass resets.)
C3_PopulationFollowsParents ==
    (AllDone /\ ntot_walkers > 1) =>
        /\ \A g \in 0..(NGlobal - 1) :
              /\ bc.parent_ix[g + 1] >= 1 => NowWalker(g).id = PreWalker(g).id
              /\ bc.parent_ix[g + 1] = 0 =>
                    \E h \in 0..(NGlobal - 1) :
                       /\ bc.parent_ix[h + 1] > 1
                       /\ NowWalker(g).id = PreWalker(h).id
              /\ Cardinality({h \in 0..(NGlobal - 1) :
                                 NowWalker(h).id = PreWalker(g).id})
                    = bc.parent_ix[g + 1]
        /\ \A k \in ActiveRanks : Len(walkers[k]) = Len(pre[k])

C3_Witness ==
    /\ AllDone
    /\ size > 1
    /\ \E g \in 0..(NGlobal - 1) :
          /\ bc.parent_ix[g + 1] = 0
          /\ NowWalker(g).id # PreWalker(g).id
          /\ NowWalker(g).id \div nwalkers # g \div nwalkers

\* C4: when comb returns on a rank (ntot_walkers > 1), every walker of the
\* rank has weight exactly 1 and total_weight equal to the global sum of
\* |weight| that rank 0 computed from the gathered weights and broadcast.
C4_WeightsResetAndTotalSet ==
    \A k \in ActiveRanks :
       (pc[k] = "done" /\ ntot_walkers > 1) =>
           \A i \in 1..Len(walkers[k]) :
              /\ walkers[k][i].weight = One
              /\ walkers[k][i].total_weight = bc.total_weight
              /\ bc.total_weight =
                    SumSeq(GatherFrom([j \in ActiveRanks |-> LocalWeights(pre[j])], 0))

C4_Witness ==
    /\ AllDone
    /\ ntot_walkers > 1
    /\ \E g \in 0..(NGlobal - 1) : PreWalker(g).weight = 0 /\ bc.parent_ix[g + 1] = 0
    /\ \E g \in 0..(NGlobal - 1) : PreWalker(g).weight < 0
    /\ bc.total_weight # ntot_walkers * One

\* C5: a walker whose weight is exactly 0 when comb is called has
\* multiplicity 0 for every offset r and every position, the first included:
\* it is in the receive list and not in the send list.
C5_ZeroWeightGetsNoTooth ==
    RootRan =>
        \A g \in 0..(NGlobal - 1) :
           GlobalWeights[g + 1] = 0 =>
              /\ pix[0][g + 1] = 0
              /\ bc.set =>
                    /\ \E i \in 1..Len(RecvList(bc.parent_ix, nw[0])) :
                          RecvList(bc.parent_ix, nw[0])[i] = Address(g, nwalkers)
                    /\ \A i \in 1..Len(SendList(bc.parent_ix, nw[0])) :
                          SendList(bc.parent_ix, nw[0])[i] # Address(g, nwalkers)

C5_Witness ==
    /\ bc.set
    /\ rdraw = 0
    /\ GlobalWeights[1] = 0
    /\ Len(GlobalWeights) > 2
    /\ GlobalWeights[3] = 0

\* C6: with ntot_walkers = 1 comb sets the walker's weight to exactly 1 and
\* returns: no Gather, no Bcast, no message, and the walker's wavefunction
\* state, total_weight and the number of walkers are unchanged.
C6_SingleWalkerShortcut ==
    ntot_walkers = 1 =>
        /\ pc[0] \in {"idle", "done"}
        /\ gathered[0] = <<>>
        /\ ~bc.set
        /\ ~RootRan
        /\ msgs = {}
        /\ nsent[0] = 0
        /\ pc[0] = "done" =>
              /\ Len(walkers[0]) = 1
              /\ walkers[0][1] = [pre[0][1] EXCEPT !.weight = One]

C6_Witness ==
    /\ ntot_walkers = 1
    /\ pc[0] = "done"
    /\ pre[0][1].weight = 0

\* the send and receive lists every rank builds from the broadcast assignment
PassSend == SendList(bc.parent_ix, nw[0])
PassRecv == RecvList(bc.parent_ix, nw[0])
PassPairs == Pairs(bc.parent_ix, nw[0])

\* the walker at address <<rank, slot>> before the pass and now
PreAt(a) == pre[a[1]][a[2] + 1]
NowAt(a) == walkers[a[1]][a[2] + 1]

\* rank k has built its lists and posted its sends
Exchanging(k) == pc[k] \in {"recv", "barrier", "done"}

\* C11: in a comb pass no address is both in the send list and in the receive
\* list and no address is twice in the receive list; the buffers of a rank
\* hold its source walkers as they were when comb was called, and a source
\* slot is never overwritten; a message in flight is the only one with its
\* tag and goes to the rank of the receive address paired with that tag; when
\* every rank has returned, pair i has put its source walker into its receive
\* slot and no other slot has changed.
C11_SendAndReceiveDisjoint ==
    (bc.set /\ ntot_walkers > 1) =>
        /\ \A i \in 1..Len(PassSend) : \A j \in 1..Len(PassRecv) :
              PassSend[i] # PassRecv[j]
        /\ \A i, j \in 1..Len(PassRecv) : i # j => PassRecv[i] # PassRecv[j]
        /\ \A k \in ActiveRanks : Exchanging(k) =>
              /\ wbufs[k] = BuffersFrom(PassPairs,
                               set_total_weight(pre[k], bc.total_weight), k, 1)
              /\ \A i \in 1..Len(PassPairs) :
                    PassPairs[i].s[1] = k =>
                       NowAt(PassPairs[i].s).id = PreAt(PassPairs[i].s).id
        /\ \A m \in msgs :
              /\ \A m2 \in msgs : m2.tag = m.tag => m2 = m
              /\ m.tag + 1 \in 1..Len(PassPairs)
              /\ m.src = PassPairs[m.tag + 1].s[1]
              /\ m.dst = PassPairs[m.tag + 1].r[1]
              /\ m.buf[2] = PreAt(PassPairs[m.tag + 1].s).id
        /\ AllDone =>
              /\ msgs = {}
              /\ \A i \in 1..Len(PassPairs) :
                    NowAt(PassPairs[i].r).id = PreAt(PassPairs[i].s).id
              /\ {g \in 0..(NGlobal - 1) : NowWalker(g).id # PreWalker(g).id}
                    = {PassPairs[i].r[1] * nwalkers + PassPairs[i].r[2] :
                          i \in 1..Len(PassPairs)}

C11_Witness ==
    /\ AllDone
    /\ size = 2
    /\ Len(PassPairs) = 2
    /\ PassPairs[1].s[1] # PassPairs[1].r[1]
    /\ PassPairs[2].s[1] = PassPairs[2].r[1]

\* the ranks all of whose walkers had weight exactly 0 when comb was called
ZeroRank(k) == \A i \in 1..Len(gathered[k]) : gathered[k][i] = 0

\* some walker of another rank than k had a positive weight
PositiveElsewhere(k) ==
    \E j \in ActiveRanks \ {k} : \E i \in 1..Len(pre[j]) : pre[j][i].weight > 0

\* C12: if every walker of some rank has weight 0 while another rank holds a
\* positive weight, the tooth loop completes with multiplicities summing to
\* ntarget, that rank posts no send, and when it has returned every one of its
\* slots holds a walker that was on another rank.
C12_ZeroRankOnlyReceives ==
    RootRan =>
        \A k \in ActiveRanks : (ZeroRank(k) /\ PositiveElsewhere(k)) =>
           /\ pc[0] # "IndexError"
           /\ IntSum(pix[0]) = nw[0] * size
           /\ Exchanging(k) =>
                 /\ nsent[k] = 0
                 /\ \A i \in 1..Len(PassPairs) : PassPairs[i].s[1] # k
           /\ pc[k] = "done" =>
                 \A i \in 1..Len(walkers[k]) :
                    walkers[k][i].id \div nwalkers # k

\* the walkers of a partition after the exchange of the pairs i.. , every
\* buffer being taken from src
RECURSIVE ExchangeFrom(_, _, _, _)
ExchangeFrom(ws, src, prs, i) ==
    IF i > Len(prs) THEN ws
    ELSE ExchangeFrom([ws EXCEPT ![prs[i].r[2] + 1] =
                          set_buffer(@, get_buffer(src[prs[i].s[2] + 1]))],
                      src, prs, i + 1)

\* what comb leaves on a single partition that held ws, for the offset r
OnePartition(ws, r) ==
    [total_weight |-> SumSeq(LocalWeights(ws)),
     res |-> CombLoop(Teeth(r, SumSeq(LocalWeights(ws)), Len(ws)),
                      CumSum(LocalWeights(ws)), 0, 0,
                      [i \in 1..Len(ws) |-> 0])]

OnePartitionWalkers(ws, one) ==
    ResetWeights(
        ExchangeFrom(set_total_weight(ws, one.total_weight),
                     set_total_weight(ws, one.total_weight),
                     Pairs(one.res.parent_ix, Len(ws)), 1))

\* C13: on a single partition with more than one walker, the state in which
\* comb ends is a function of the walkers it was given and of the offset r
\* alone, the same with a FakeComm and with a real communicator: the parent
\* assignment, the slot contents, the weights and total_weight.
C13_FakeCommSameAsReal ==
    (size = 1 /\ ntot_walkers > 1 /\ RootRan) =>
        /\ pix[0] = OnePartition(pre[0], rdraw).res.parent_ix
        /\ (pc[0] = "IndexError") = ~OnePartition(pre[0], rdraw).res.ok
        /\ pc[0] = "done" =>
              /\ bc.total_weight = OnePartition(pre[0], rdraw).total_weight
              /\ walkers[0] =
                    OnePartitionWalkers(pre[0], OnePartition(pre[0], rdraw))

C13_Witness ==
    /\ size = 1
    /\ fake
    /\ pc[0] = "done"
    /\ Len(Pairs(pix[0], nw[0])) = 2
    /\ Pairs(pix[0], nw[0])[1].s # Pairs(pix[0], nw[0])[2].s

\* C14: if the global sum of |weight| is zero when comb is called with
\* ntot_walkers > 1, every rank ends the run with an error: no rank resets
\* its weights and returns, and no rank waits in Bcast for a root that has
\* already failed.
C14_CollapseAbortsEveryRank ==
    (ntot_walkers > 1 /\ RootRan /\ SumSeq(GlobalWeights) = 0) =>
        \A k \in ActiveRanks :
           /\ pc[k] # "done"
           /\ ~(pc[k] = "bcast" /\ pc[0] = "IndexError")

-----------------------------------------------------------------------------
(* Propagation of one walker                                               *)
(*                                                                         *)
(* One electron per spin on NBasis sites: phi[s] and the trial psi are     *)
(* NBasis-vectors, inv_ovlp[s] is a 1x1 matrix, G[s] is NBasis x NBasis.   *)
(* Numbers are exact fractions <<n, d>> with d >= 0; d = 0 holds what      *)
(* numpy produces on division by zero: <<1,0>> inf, <<-1,0>> -inf and      *)
(* <<0,0>> nan (the sign of a zero is not kept).  Equality of fractions    *)
(* stands for agreement to numerical tolerance.                            *)

NBasis == 2
MaxOps == 3
PhiTop == 5
SqrtBits == 1
MaxMag == 200

Abs(n) == IF n < 0 THEN -n ELSE n
Sign(n) == IF n > 0 THEN 1 ELSE IF n < 0 THEN -1 ELSE 0

RECURSIVE GCD(_, _)
GCD(a, b) == IF b = 0 THEN a ELSE GCD(b, a % b)

RNorm(n, d) ==
    IF d = 0 THEN <<Sign(n), 0>>
    ELSE LET g == GCD(Abs(n), Abs(d))
         IN  <<Sign(d) * (n \div g), Sign(d) * (d \div g)>>

R(n) == <<n, 1>>
Zero == R(0)
NaN == <<0, 0>>
RIsNaN(a) == a = NaN
Finite(a) == a[2] # 0

\* a + b over the least common denominator
RAdd(a, b) ==
    IF a[2] = 0 /\ b[2] = 0 THEN (IF a = b THEN a ELSE NaN)
    ELSE IF a[2] = 0 THEN a
    ELSE IF b[2] = 0 THEN b
    ELSE LET g == GCD(a[2], b[2])
         IN  RNorm(a[1] * (b[2] \div g) + b[1] * (a[2] \div g),
                   (a[2] \div g) * b[2])
RNeg(a) == <<-a[1], a[2]>>
RSub(a, b) == RAdd(a, RNeg(b))

\* a * b, reduced crosswise before the products are formed
RMul(a, b) ==
    LET g == GCD(Abs(a[1]), b[2])
        h == GCD(Abs(b[1]), a[2])
    IN  IF g = 0 \/ h = 0 THEN RNorm(a[1] * b[1], a[2] * b[2])
        ELSE RNorm((a[1] \div g) * (b[1] \div h),
                   (a[2] \div h) * (b[2] \div g))
RInv(a) == RNorm(a[2], a[1])
RDiv(a, b) == RMul(a, RInv(b))

\* a < b; every comparison with nan is False
RLt(a, b) ==
    IF RIsNaN(a) \/ RIsNaN(b) THEN FALSE
    ELSE IF a[2] = 0 /\ b[2] = 0 THEN a[1] < b[1]
    ELSE IF a[2] = 0 THEN a[1] < 0
    ELSE IF b[2] = 0 THEN b[1] > 0
    ELSE LET g == GCD(a[2], b[2])
         IN  a[1] * (b[2] \div g) < b[1] * (a[2] \div g)
RGt(a, b) == RLt(b, a)

\* floor of the square root of a natural number
RECURSIVE ISqrtIn(_, _, _)
ISqrtIn(n, lo, hi) ==
    IF lo >= hi THEN lo
    ELSE LET mid == (lo + hi + 1) \div 2
         IN  IF mid * mid <= n THEN ISqrtIn(n, mid, hi)
             ELSE ISqrtIn(n, lo, mid - 1)

RECURSIVE SqrtCap(_, _)
SqrtCap(n, k) == IF k * k > n THEN k ELSE SqrtCap(n, 2 * k)

ISqrt(n) == ISqrtIn(n, 0, SqrtCap(n, 1))

\* sqrt of n/d > 0, rounded down to SqrtBits significant bits
RECURSIVE RSqrtPos(_, _)
RSqrtPos(n, d) ==
    IF n >= 4 * d THEN RMul(R(2), RSqrtPos(n, 4 * d))
    ELSE IF n < d THEN RMul(RNorm(1, 2), RSqrtPos(4 * n, d))
    ELSE RNorm(ISqrt((n * Pow2(2 * (SqrtBits - 1))) \div d), Pow2(SqrtBits - 1))

\* numpy.sqrt of a >= 0: the floating point square root is rounded to 53
\* significant bits, here to SqrtBits
RSqrt(a) ==
    IF ~Finite(a) \/ a[1] = 0 THEN a ELSE RSqrtPos(a[1], a[2])

Sites == 1..NBasis
Spin == 1..2

RECURSIVE DotFrom(_, _, _)
DotFrom(u, v, i) ==
    IF i > Len(u) THEN Zero
    ELSE RAdd(RMul(u[i], v[i]), DotFrom(u, v, i + 1))

\* numpy dot of two vectors
Dot(u, v) == DotFrom(u, v, 1)

\* state.projectors.bt2 = expm(-0.5*dt*T): a symmetric positive definite
\* matrix coupling neighbouring sites
bt2 ==
    [i \in Sites |-> [j \in Sites |->
        IF i = j THEN R(2) ELSE IF i = j + 1 \/ j = i + 1 THEN R(1) ELSE Zero]]

\* state.auxf: auxf[x][s] = exp(+-gamma) for field value x and spin s
auxf == << <<R(2), RNorm(1, 2)>>, <<RNorm(1, 2), R(2)>> >>

\* delta = state.auxf - 1 (x in {0, 1} as in the code)
delta(x, s) == RSub(auxf[x + 1][s], R(1))

\* exp(x_i) - 1 of continuous_hubbard for a real x_i (U < 0): exp(x_i) in
\* {2, 1/2}
DeltaVals == {R(1), RNorm(-1, 2)}

\* trial wavefunctions: one orbital, used for both spins
TrialVals ==
    { [i \in Sites |-> IF i % 2 = 1 THEN R(1) ELSE R(-1)],
      [i \in Sites |-> R(1)] }

\* wavefunctions a walker is built with or reads from a restart file
PhiVals ==
    { [i \in Sites |-> IF i = 1 THEN R(a) ELSE R(2)] : a \in {1, 2, PhiTop} }

\* trial^T . phi[s] of one spin
Overlap(psi, v) == Dot(psi, v)

\* Walker.inverse_overlap: scipy.linalg.inv raises LinAlgError on a singular
\* overlap; spin up is assigned before spin down is inverted.
\* Returns the new inv_ovlp and the exception, if any.
inverse_overlap(w, psi) ==
    IF Overlap(psi, w.phi[1]) = Zero
    THEN [inv_ovlp |-> w.inv_ovlp, err |-> "LinAlgError"]
    ELSE IF Overlap(psi, w.phi[2]) = Zero
    THEN [inv_ovlp |-> <<RInv(Overlap(psi, w.phi[1])), w.inv_ovlp[2]>>,
          err |-> "LinAlgError"]
    ELSE [inv_ovlp |-> <<RInv(Overlap(psi, w.phi[1])),
                         RInv(Overlap(psi, w.phi[2]))>>,
          err |-> None]

\* Walker.calc_otrial: 1.0/(det(inv_ovlp[0])*det(inv_ovlp[1]))
calc_otrial(inv) == RDiv(R(1), RMul(inv[1], inv[2]))

\* Walker.greens_function: G[s] = (phi[s] . inv_ovlp[s] . trial^T)^T
greens_function(phi, inv, psi) ==
    [s \in Spin |-> [i \in Sites |-> [j \in Sites |->
        RMul(RMul(phi[s][j], inv[s]), psi[i])]]]

\* utils.sherman_morrison(Ainv, u, vt):
\*   Ainv - (Ainv.u)(vt.Ainv) / (1 + vt.Ainv.u)
sherman_morrison(Ainv, u, vt) ==
    RSub(Ainv, RDiv(RMul(RMul(Ainv, u), RMul(vt, Ainv)),
                    RAdd(R(1), RMul(RMul(vt, Ainv), u))))

\* mutant: the factor is assigned instead of multiplied in
reweightAssign(weight, factor) == factor

\* walker.weight = walker.weight * factor
reweight(weight, factor) == RMul(weight, factor)

\* ratio > 1e-16.  Every positive fraction of the model is far above 1e-16,
\* so the test is ratio > 0 (nan compares False, +inf True).
AboveFloor(ratio) == RGt(ratio, Zero)

\* The arrays of a walker.  w.phi is the content of the array the attribute
\* phi is bound to, which has address 0; phi_old, phi_init and phi_bp hold
\* the address of the array each is bound to, and w.store the contents of
\* the arrays at the addresses 1, 2, ...

\* the content of the array at address a
Deref(w, a) == IF a = 0 THEN w.phi ELSE w.store[a]

\* numpy.copyto(dst, src): the content of the array at address a becomes val
copyto(w, a, val) ==
    IF a = 0 THEN [w EXCEPT !.phi = val] ELSE [w EXCEPT !.store[a] = val]

\* w.phi = newphi: the attribute is bound to another array; an attribute
\* still bound to the previous array keeps that array
rebind(w, newphi) ==
    IF 0 \in {w.phi_old, w.phi_init, w.phi_bp}
    THEN [w EXCEPT !.phi = newphi,
                   !.store = Append(@, w.phi),
                   !.phi_old = IF @ = 0 THEN Len(w.store) + 1 ELSE @,
                   !.phi_init = IF @ = 0 THEN Len(w.store) + 1 ELSE @,
                   !.phi_bp = IF @ = 0 THEN Len(w.store) + 1 ELSE @]
    ELSE [w EXCEPT !.phi = newphi]

\* mutant: phi_old is bound to the array of phi instead of a copy of it
NewWalkerAliased(phi, psi) ==
    [weight |-> R(1), phase |-> R(1), ot |-> R(1), phi |-> phi,
     inv_ovlp |-> <<RInv(Overlap(psi, phi[1])), RInv(Overlap(psi, phi[2]))>>,
     G |-> greens_function(phi, <<RInv(Overlap(psi, phi[1])),
                                  RInv(Overlap(psi, phi[2]))>>, psi),
     phi_old |-> 0, phi_init |-> 2, phi_bp |-> 3,
     store |-> <<phi, phi, phi>>]

\* Walker.__init__: phi, then inverse_overlap and greens_function, ot = 1.0;
\* phi_old, phi_init and phi_bp are deep copies of phi (lines 77-82)
NewWalker(phi, psi) ==
    [weight |-> R(1), phase |-> R(1), ot |-> R(1), phi |-> phi,
     inv_ovlp |-> <<RInv(Overlap(psi, phi[1])), RInv(Overlap(psi, phi[2]))>>,
     G |-> greens_function(phi, <<RInv(Overlap(psi, phi[1])),
                                  RInv(Overlap(psi, phi[2]))>>, psi),
     phi_old |-> 1, phi_init |-> 2, phi_bp |-> 3,
     store |-> <<phi, phi, phi>>]

\* kinetic_direct, lines 153-154: phi[s] = bt2.dot(phi[s])
apply_bt2(w) ==
    [w EXCEPT !.phi = [s \in Spin |->
                         [i \in Sites |-> Dot(bt2[i], w.phi[s])]]]

\* mutant: ot is set to ot_new also when the walker dies
kinetic_reweight_ot(w, ot_new, psi) ==
    IF AboveFloor(RDiv(ot_new, w.ot))
    THEN [w EXCEPT !.G = greens_function(w.phi, w.inv_ovlp, psi),
                   !.weight = reweight(@, RDiv(ot_new, w.ot)),
                   !.ot = ot_new]
    ELSE [w EXCEPT !.G = greens_function(w.phi, w.inv_ovlp, psi),
                   !.weight = Zero,
                   !.ot = ot_new]

\* kinetic_direct, lines 159-164, for the walker with its new phi and
\* inv_ovlp and the new overlap ot_new
kinetic_reweight(w, ot_new, psi) ==
    IF AboveFloor(RDiv(ot_new, w.ot))
    THEN [w EXCEPT !.G = greens_function(w.phi, w.inv_ovlp, psi),
                   !.weight = reweight(@, RDiv(ot_new, w.ot)),
                   !.ot = ot_new]
    ELSE [w EXCEPT !.G = greens_function(w.phi, w.inv_ovlp, psi),
                   !.weight = Zero]

\* kinetic_direct, lines 156-158, given what inverse_overlap did
kinetic_inverted(w, io, psi) ==
    IF io.err # None
    THEN [w |-> [w EXCEPT !.inv_ovlp = io.inv_ovlp], err |-> io.err]
    ELSE [w |-> kinetic_reweight([w EXCEPT !.inv_ovlp = io.inv_ovlp],
                                 calc_otrial(io.inv_ovlp), psi),
          err |-> None]

kinetic_moved(w, psi) == kinetic_inverted(w, inverse_overlap(w, psi), psi)

\* kinetic_direct(walker, state): the walker on return and the exception
kinetic_direct(w, psi) == kinetic_moved(apply_bt2(w), psi)

\* probs of discrete_hubbard for the diagonal entries g0, g1 of G (lines
\* 30-31)
ProbsOf(g0, g1) ==
    << RMul(RNorm(1, 2), RMul(RAdd(R(1), RMul(delta(0, 1), g0)),
                              RAdd(R(1), RMul(delta(0, 2), g1)))),
       RMul(RNorm(1, 2), RMul(RAdd(R(1), RMul(delta(1, 1), g0)),
                              RAdd(R(1), RMul(delta(1, 2), g1)))) >>

Probs(w, i) == ProbsOf(w.G[1][i][i], w.G[2][i][i])

\* some r in [0, 1) takes the branch x at a site with p = probs[0]/norm:
\* x = 0 needs r < p, x = 1 needs not (r < p)
CanDraw(x, p) == IF x = 0 THEN RGt(p, Zero) ELSE RIsNaN(p) \/ RLt(p, R(1))

\* The loop of discrete_hubbard carries st: st.w is the walker, st.vt the
\* local variables <<vtup, vtdown>> (<<>> while unbound), st.err the
\* exception, st.died the first site at which the weight was not positive
\* (0: none) with st.snap the walker right after that reweighting, and
\* st.ok whether the field values can be drawn (the value is fixed to 0
\* where no draw is used).

\* inv_ovlp and G are assigned
refresh(w, inv, psi) ==
    [w EXCEPT !.inv_ovlp = inv, !.G = greens_function(w.phi, inv, psi)]

\* lines 49-55: sherman_morrison with vtup, vtdown as they are, then
\* greens_function
site_fields(st, psi, i) ==
    IF st.vt = <<>> THEN [st EXCEPT !.err = "UnboundLocalError"]
    ELSE [st EXCEPT !.w = refresh(st.w,
                             [s \in Spin |->
                                sherman_morrison(st.w.inv_ovlp[s], psi[i],
                                                 st.vt[s])],
                             psi)]

\* lines 37-48: the branch x is taken
site_live(st, i, x, probs, norm, weight, vt) ==
    [st EXCEPT !.w = [st.w EXCEPT
                        !.weight = weight,
                        !.phi = [s \in Spin |->
                                   [st.w.phi[s] EXCEPT ![i] = RAdd(@, vt[s])]],
                        !.ot = RMul(RMul(R(2), @), probs[x + 1])],
               !.vt = vt,
               !.ok = CanDraw(x, RDiv(probs[1], norm))]

mark_dead(st, i) ==
    IF st.died = 0 THEN [st EXCEPT !.died = i, !.snap = st.w] ELSE st

\* the weight is not positive: lines 37-48 are skipped
site_dead(st, i, x, weight) ==
    mark_dead([st EXCEPT !.w = [st.w EXCEPT !.weight = weight],
                         !.ok = (x = 0)], i)

\* line 36: if walker.weight > 0
site_branch(st, i, x, probs, norm, weight) ==
    IF RGt(weight, Zero)
    THEN site_live(st, i, x, probs, norm, weight,
                   <<RMul(st.w.phi[1][i], delta(x, 1)),
                     RMul(st.w.phi[2][i], delta(x, 2))>>)
    ELSE site_dead(st, i, x, weight)

\* line 33: walker.weight = walker.weight * norm
site_normed(st, i, x, probs, norm) ==
    site_branch(st, i, x, probs, norm, reweight(st.w.weight, norm))

\* line 32: norm = sum(probs)
site_probs(st, i, x, probs) ==
    site_normed(st, i, x, probs, RAdd(probs[1], probs[2]))

\* the body of the loop at site i
discrete_site(st, psi, xs, i) ==
    site_fields(site_probs(st, i, xs[i], Probs(st.w, i)), psi, i)

\* every number of the walker is within MaxMag
SmallNum(a) == Abs(a[1]) <= MaxMag /\ a[2] <= MaxMag
Small(w) ==
    /\ SmallNum(w.weight) /\ SmallNum(w.ot) /\ SmallNum(w.phase)
    /\ \A s \in Spin :
          /\ SmallNum(w.inv_ovlp[s])
          /\ \A i \in Sites :
                /\ SmallNum(w.phi[s][i])
                /\ \A j \in Sites : SmallNum(w.G[s][i][j])

\* for i in range(0, state.system.nbasis), ended by an exception (and
\* followed only while the numbers stay within the bounds of the model)
RECURSIVE discrete_sites(_, _, _, _)
discrete_sites(st, psi, xs, i) ==
    IF i > NBasis \/ st.err # None \/ ~st.ok THEN st
    ELSE IF ~Small(st.w) THEN [st EXCEPT !.ok = FALSE]
    ELSE discrete_sites(discrete_site(st, psi, xs, i), psi, xs, i + 1)

discrete_hubbard(w, psi, xs) ==
    discrete_sites([w |-> w, vt |-> <<>>, err |-> None, died |-> 0,
                    snap |-> w, ok |-> TRUE], psi, xs, 1)

\* continuous_hubbard, lines 77-87 at site i with vtup, vtdown
continuous_site(w, psi, i, vt) ==
    refresh([w EXCEPT !.phi = [s \in Spin |->
                                 [w.phi[s] EXCEPT ![i] = RAdd(@, vt[s])]]],
            [s \in Spin |-> sherman_morrison(w.inv_ovlp[s], psi[i], vt[s])],
            psi)

\* continuous_hubbard with exp(x_i) - 1 = d at the first site.  A walker
\* whose weight is not positive is skipped at every site.  For a live
\* walker the first site updates phi, inv_ovlp and G and then calls
\* estimators.local_energy(state.system, walker.G): local_energy(system,
\* walker) reads walker.G of its second argument, which here is G itself,
\* so the call raises AttributeError and lines 89-94 are not reached.
continuous_hubbard(w, psi, d) ==
    IF ~RGt(w.weight, Zero) THEN [w |-> w, err |-> None]
    ELSE [w |-> continuous_site(w, psi, 1, <<RMul(w.phi[1][1], d),
                                             RMul(w.phi[2][1], d)>>),
          err |-> "AttributeError"]

\* |R| of the QR factorisation of one column
ColNorm(v) == RSqrt(Dot(v, v))

\* Walker.reortho with |Rup|, |Rdown|: phi[s] becomes Q times the sign of R,
\* ot is divided by detR = det(signs_up.Rup) * det(signs_down.Rdown), which
\* is returned.  inv_ovlp and G are not touched.
reortho_with(w, Rabs) ==
    [w |-> [w EXCEPT !.phi = [s \in Spin |-> [i \in Sites |->
                                IF Rabs[s] = Zero THEN Zero
                                ELSE RDiv(w.phi[s][i], Rabs[s])]],
                     !.ot = RDiv(@, RMul(Rabs[1], Rabs[2]))],
     detR |-> RMul(Rabs[1], Rabs[2])]

reortho(w) == reortho_with(w, <<ColNorm(w.phi[1]), ColNorm(w.phi[2])>>)

\* Walkers.orthogonalise for one walker, given what reortho returned:
\* cmath.polar(detR) of a detR >= 0 is (detR, 0), so the phase is
\* multiplied by exp(0j) = 1
orthogonalise_with(ro, fp) ==
    IF fp THEN [ro.w EXCEPT !.weight = reweight(@, ro.detR),
                            !.phase = RMul(@, R(1))]
    ELSE ro.w

orthogonalise(w, fp) == orthogonalise_with(reortho(w), fp)

\* phi.shape = (nbasis, ne) and phi.size: phi[s][i] is row i, column s
shape(phi) == <<Len(phi[1]), Len(phi)>>
phi_size(phi) == Len(phi[1]) * Len(phi)

\* phi.ravel(): the entries in row-major order
ravel(phi) ==
    [j \in 1..phi_size(phi) |->
        phi[((j - 1) % Len(phi)) + 1][((j - 1) \div Len(phi)) + 1]]

\* mutant: the entries are laid out column by column (order='F')
reshapeF(flat, shp) ==
    [s \in 1..shp[2] |-> [i \in 1..shp[1] |-> flat[(s - 1) * shp[1] + i]]]

\* flat.reshape(shp): row i, column s is entry i * ncols + s (from 0)
reshape(flat, shp) ==
    [s \in 1..shp[2] |-> [i \in 1..shp[1] |-> flat[(i - 1) * shp[2] + s]]]

\* Walkers.get_write_buffer:
\*   numpy.concatenate([[w.weight], [w.phase], [w.ot], w.phi.ravel()])
get_write_buffer(w) == <<w.weight, w.phase, w.ot>> \o ravel(w.phi)

\* Walkers.set_walker_from_buffer: weight, phase and ot are assigned, then
\* phi is bound to buff[3:].reshape(phi.shape), which raises ValueError when
\* the sizes differ; nothing else is assigned
set_walker_from_buffer(w, buff) ==
    IF Len(buff) - 3 # phi_size(w.phi)
    THEN [w |-> [w EXCEPT !.weight = buff[1], !.phase = buff[2],
                          !.ot = buff[3]],
          err |-> "ValueError"]
    ELSE [w |-> rebind([w EXCEPT !.weight = buff[1], !.phase = buff[2],
                                 !.ot = buff[3]],
                       reshape(SubSeq(buff, 4, Len(buff)), shape(w.phi))),
          err |-> None]

\* ix = i + self.nwalkers*comm.rank of write_walkers and read_walkers
dataset_index(i, nwk, rank) == i + nwk * rank

\* Walkers.read_walkers for local walker 0 of rank 0: a missing dataset is a
\* KeyError, which is caught: a message is printed and the loop goes on
read_walkers(w, file) ==
    IF dataset_index(0, nwalkers, 0) + 1 > Len(file)
    THEN [w |-> w, err |-> None]
    ELSE set_walker_from_buffer(w, file[dataset_index(0, nwalkers, 0) + 1])

\* Walkers.write_walkers for local walker 0 of rank 0
write_walkers(file, w) ==
    [file EXCEPT ![dataset_index(0, nwalkers, 0) + 1] = get_write_buffer(w)]

\* records of a restart file: a walker of weight 1 written after a comb
RestartBuffers ==
    { <<R(1), R(1), R(1)>> \o ravel(<<u, u>>) : u \in PhiVals }

\* a record written by a run with one basis function less
ShortBuffer ==
    <<R(1), R(1), R(1)>> \o [j \in 1..(2 * (NBasis - 1)) |-> R(1)]

\* the files read_file may name: with the walker's dataset, without it, and
\* with a record of another length
RestartFiles ==
    {<<>>, <<ShortBuffer>>} \cup { <<b>> : b \in RestartBuffers }

\* Walkers.copy_historic_wfn, copy_init_wfn, copy_bp_wfn for one walker
copy_historic_wfn(w) == copyto(w, w.phi_old, w.phi)
copy_init_wfn(w) == copyto(w, w.phi_init, w.phi)
copy_bp_wfn(w, wbp_phi) == copyto(w, w.phi_bp, wbp_phi)

\* the comb variables of a one-rank, one-walker run
CombIdle ==
    /\ size = 1
    /\ nwalkers = 1
    /\ fake = TRUE
    /\ walkers = [k \in {0} |-> <<>>]
    /\ nw = [k \in {0} |-> 1]
    /\ pc = [k \in {0} |-> "idle"]
    /\ gathered = [k \in {0} |-> <<>>]
    /\ bc = [set |-> FALSE, parent_ix |-> <<>>, total_weight |-> 0]
    /\ rdraw = -1
    /\ pix = [k \in {0} |-> <<>>]
    /\ msgs = {}
    /\ wbufs = [k \in {0} |-> <<>>]
    /\ ri = [k \in {0} |-> 0]
    /\ pre = [k \in {0} |-> <<>>]
    /\ nsent = [k \in {0} |-> 0]

\* what the last call was, the walker it was given, and for
\* discrete_hubbard the site of death and the walker at that moment
Call(op, w, died, snap) ==
    [op |-> op, before |-> w, died |-> died, snap |-> snap, arg |-> <<>>]

\* Walkers.__init__ with one walker: phi is the trial or another initial
\* wavefunction with a non-singular overlap
InitProp ==
    /\ CombIdle
    /\ PhaseIdle
    /\ FieldIdle
    /\ BPIdle
    /\ h5 = <<[j \in 1..(3 + 2 * NBasis) |-> Zero]>>
    /\ trial \in TrialVals
    /\ free_projection \in BOOLEAN
    /\ \E u, v \in PhiVals \cup {trial} :
          /\ Overlap(trial, u) # Zero
          /\ Overlap(trial, v) # Zero
          /\ pw = <<NewWalker(<<u, v>>, trial)>>
    /\ plast = Call("init", pw[1], 0, pw[1])
    /\ perr = None
    /\ hist = <<>>

\* a call is made while no exception has ended the run (and within the
\* bounds of the model)
CanCall == perr = None /\ Len(hist) < MaxOps /\ Small(pw[1])

ReturnedWith(op, w, err, arg) ==
    /\ pw' = <<w>>
    /\ perr' = err
    /\ plast' = [Call(op, pw[1], 0, pw[1]) EXCEPT !.arg = arg]
    /\ hist' = Append(hist, op)
    /\ UNCHANGED <<cvars, trial, free_projection, evars>>

Returned(op, w, err) == ReturnedWith(op, w, err, <<>>) /\ UNCHANGED h5

Raised(op, res) == Returned(op, res.w, res.err)

KineticDirect ==
    /\ CanCall
    /\ Raised("kinetic", kinetic_direct(pw[1], trial))

DiscreteReturned(res) ==
    /\ res.ok
    /\ pw' = <<res.w>>
    /\ perr' = res.err
    /\ plast' = Call("discrete", pw[1], res.died, res.snap)
    /\ hist' = Append(hist, "discrete")
    /\ UNCHANGED <<cvars, trial, free_projection, h5, evars>>

DiscreteHubbard ==
    /\ CanCall
    /\ \E xs \in [Sites -> {0, 1}] :
          DiscreteReturned(discrete_hubbard(pw[1], trial, xs))

ContinuousHubbard ==
    /\ CanCall
    /\ \E d \in DeltaVals :
          Raised("continuous", continuous_hubbard(pw[1], trial, d))

Orthogonalise ==
    /\ CanCall
    /\ Returned("orthogonalise", orthogonalise(pw[1], free_projection), None)

ReadReturned(res, file) ==
    ReturnedWith("read", res.w, res.err, file) /\ UNCHANGED h5

\* read_walkers at start-up (Walkers.__init__, lines 79-82)
ReadWalker ==
    /\ CanCall
    /\ hist = <<>>
    /\ \E file \in RestartFiles :
          ReadReturned(read_walkers(pw[1], file), file)

\* write_walkers: the record of the walker goes to its dataset
WriteWalkers ==
    /\ CanCall
    /\ hist # <<>>
    /\ hist[Len(hist)] # "write"
    /\ ReturnedWith("write", pw[1], None, <<>>)
    /\ h5' = write_walkers(h5, pw[1])

\* the next run is started from the file just written: Walkers.__init__
\* builds the walker from the trial and read_walkers sets it from its record
Restart ==
    /\ CanCall
    /\ hist # <<>>
    /\ hist[Len(hist)] = "write"
    /\ Raised("restart", read_walkers(NewWalker(<<trial, trial>>, trial), h5))

CopyHistoricWfn ==
    /\ CanCall
    /\ Returned("copy_historic_wfn", copy_historic_wfn(pw[1]), None)

CopyInitWfn ==
    /\ CanCall
    /\ Returned("copy_init_wfn", copy_init_wfn(pw[1]), None)

CopyBpWfn ==
    /\ CanCall
    /\ \E u \in PhiVals :
          Returned("copy_bp_wfn", copy_bp_wfn(pw[1], <<u, u>>), None)

\* Walkers.comb with ntot_walkers == 1 (lines 167-169)
CombSingle ==
    /\ CanCall
    /\ ntot_walkers = 1
    /\ Returned("comb", [pw[1] EXCEPT !.weight = R(1)], None)

NextProp ==
    \/ KineticDirect
    \/ DiscreteHubbard
    \/ ContinuousHubbard
    \/ Orthogonalise
    \/ ReadWalker
    \/ CombSingle
    \/ WriteWalkers
    \/ Restart
    \/ CopyHistoricWfn
    \/ CopyInitWfn
    \/ CopyBpWfn

SpecProp == InitProp /\ [][NextProp]_vars


-----------------------------------------------------------------------------
(* Claims about the propagation of a walker *)

TheWalker == pw[1]

\* the calls made so far are kinetic_direct, discrete_hubbard and
\* continuous_hubbard only
OnlyPropagators ==
    \A i \in 1..Len(hist) : hist[i] \in {"kinetic", "discrete", "continuous"}

\* C7: without free projection, after any sequence of kinetic_direct,
\* discrete_hubbard and continuous_hubbard calls that returned, on a walker
\* built with weight 1, the weight is not negative.
C7_WeightNeverNegative ==
    (~free_projection /\ OnlyPropagators /\ perr = None) =>
        ~RLt(TheWalker.weight, Zero)

\* inv_ovlp is the inverse of trial^T.phi and G is the Green's function of
\* phi and that inverse
Consistent(w, psi) ==
    /\ \A s \in Spin :
          /\ Overlap(psi, w.phi[s]) # Zero
          /\ w.inv_ovlp[s] = RInv(Overlap(psi, w.phi[s]))
    /\ w.G = greens_function(w.phi, w.inv_ovlp, psi)

\* C8: whenever a walker operation has returned, inv_ovlp is the inverse
\* overlap of the trial with the current phi and G is the Green's function
\* of the current phi and that inv_ovlp.
C8_InverseOverlapFollowsPhi ==
    (hist # <<>> /\ perr = None) => Consistent(TheWalker, trial)

\* C9: when discrete_hubbard has found the weight not positive at some
\* site, the call returns without an exception and phi, inv_ovlp, ot and G
\* are what they were at that moment.
C9_DeadWalkerLeftAlone ==
    (plast.op = "discrete" /\ plast.died > 0) =>
        /\ perr = None
        /\ TheWalker.phi = plast.snap.phi
        /\ TheWalker.inv_ovlp = plast.snap.inv_ovlp
        /\ TheWalker.ot = plast.snap.ot
        /\ TheWalker.G = plast.snap.G

\* C10: a walker of weight 0 stays in the walker list, and a call that
\* leaves it with a non-zero weight is a comb; kinetic_direct,
\* discrete_hubbard, continuous_hubbard and orthogonalise leave the weight
\* at 0.
C10_DeathIsAbsorbing ==
    [][TheWalker.weight = Zero =>
          /\ Len(pw') = Len(pw)
          /\ pw'[1].weight # Zero => plast'.op = "comb"]_vars

C10_Witness ==
    /\ Len(hist) = MaxOps
    /\ hist[MaxOps - 1] = "continuous"
    /\ hist[MaxOps] \in {"kinetic", "orthogonalise"}
    /\ free_projection
    /\ plast.before.weight = Zero
    /\ plast.before.phi # TheWalker.phi
    /\ TheWalker.weight = Zero

\* the file has no dataset for the walker, or a record of another length
Mismatch(file, w) ==
    \/ Len(file) = 0
    \/ Len(file[1]) # 3 + phi_size(w.phi)

\* C15: when read_walkers is given a file in which the walker's dataset is
\* missing or whose record does not have 3 + phi.size entries, the read ends
\* the start-up with an exception.
C15_ReadMismatchIsFatal ==
    (plast.op = "read" /\ Mismatch(plast.arg, plast.before)) => perr # None

\* C16: the record of a walker is weight, phase, ot and then the entries of
\* phi row by row, 3 + phi.size numbers; a walker set from the record that
\* was written for it has the same weight, phase, ot and phi (entries and
\* shape) as the walker that wrote it; the dataset index i + nwalkers*rank
\* is within the datasets created and differs for different (rank, i).
C16_CheckpointRoundTrips ==
    /\ Len(get_write_buffer(TheWalker)) = 3 + 2 * NBasis
    /\ get_write_buffer(TheWalker)[1] = TheWalker.weight
    /\ get_write_buffer(TheWalker)[2] = TheWalker.phase
    /\ get_write_buffer(TheWalker)[3] = TheWalker.ot
    /\ \A i \in Sites : \A s \in Spin :
          get_write_buffer(TheWalker)[3 + 2 * (i - 1) + s] = TheWalker.phi[s][i]
    /\ plast.op = "write" => h5[1] = get_write_buffer(plast.before)
    /\ plast.op = "restart" =>
          /\ perr = None
          /\ TheWalker.weight = plast.before.weight
          /\ TheWalker.phase = plast.before.phase
          /\ TheWalker.ot = plast.before.ot
          /\ TheWalker.phi = plast.before.phi
          /\ shape(TheWalker.phi) = shape(plast.before.phi)
    /\ \A nwk \in 1..NWalkers : \A k1, k2 \in 0..(NRanks - 1) :
          \A i1, i2 \in 0..(nwk - 1) :
             /\ dataset_index(i1, nwk, k1) \in 0..(nwk * NRanks - 1)
             /\ dataset_index(i1, nwk, k1) = dataset_index(i2, nwk, k2) =>
                   (i1 = i2 /\ k1 = k2)

C16_Witness ==
    /\ plast.op = "restart"
    /\ Len(hist) = MaxOps
    /\ hist[1] \in {"kinetic", "discrete"}
    /\ TheWalker.phi[1] # TheWalker.phi[2]
    /\ TheWalker.phi[1][2] # TheWalker.phi[2][1]
    /\ TheWalker.weight # R(1)
    /\ TheWalker.phi # <<trial, trial>>

CopyOps == {"copy_historic_wfn", "copy_init_wfn", "copy_bp_wfn"}

\* the values of the snapshots phi_old, phi_init, phi_bp
Snapshots(w) ==
    <<Deref(w, w.phi_old), Deref(w, w.phi_init), Deref(w, w.phi_bp)>>

-----------------------------------------------------------------------------
(* FieldConfig: the ring of auxiliary field configurations of a walker      *)
(*                                                                         *)
(* fc holds the attributes of one FieldConfig, and with them the number of *)
(* push and of push_full calls made so far and the exception, if any.  The *)
(* value stored by a call is the number of the call.                       *)

MaxFields == 2
MaxPropTot == 3
MaxPush == 6

\* FieldConfig.__init__(nfields, nprop_tot, nbp, dtype)
NewFieldConfig(nfields, nprop_tot, nbp) ==
    [configs |-> [r \in 1..nprop_tot |-> [c \in 1..nfields |-> 0]],
     cos_fac |-> [r \in 1..nprop_tot |-> 0],
     weight_fac |-> [r \in 1..nprop_tot |-> 0],
     step |-> 0, block |-> -1, ib |-> 0,
     nfields |-> nfields, nbp |-> nbp, nprop_tot |-> nprop_tot,
     nblock |-> nprop_tot \div nbp,
     npush |-> 0, nfull |-> 0, err |-> None, done |-> <<>>]

\* an index numpy accepts for an axis of length n (negative ones count from
\* the end)
InAxis(i, n) == -n <= i /\ i < n
AxisIndex(i, n) == IF i < 0 THEN i + n + 1 ELSE i + 1

\* lines 418-419 and 428-429: completed this block of back propagation steps?
advance_block(f) ==
    IF f.step % f.nbp # 0 THEN f
    ELSE IF f.nblock = 0 THEN [f EXCEPT !.err = "ZeroDivisionError"]
    ELSE [f EXCEPT !.block = (f.block + 1) % f.nblock]

\* mutant: the step is not taken modulo nprop_tot
advance_step_unwrapped(f) == advance_block([f EXCEPT !.step = f.step + 1])

\* lines 416 and 426: self.step = (self.step + 1) % self.nprop_tot
advance_step(f) ==
    advance_block([f EXCEPT !.step = (f.step + 1) % f.nprop_tot])

\* lines 413-419 of push
push_ib(f) ==
    IF (f.ib + 1) % f.nfields = 0
    THEN advance_step([f EXCEPT !.ib = 0])
    ELSE [f EXCEPT !.ib = (f.ib + 1) % f.nfields]

\* FieldConfig.push(config)
push(f, config) ==
    IF ~(InAxis(f.step, f.nprop_tot) /\ InAxis(f.ib, f.nfields))
    THEN [f EXCEPT !.err = "IndexError", !.npush = @ + 1]
    ELSE push_ib([f EXCEPT
                    !.configs[AxisIndex(f.step, f.nprop_tot)]
                             [AxisIndex(f.ib, f.nfields)] = config,
                    !.npush = @ + 1])

\* FieldConfig.push_full(config, cfac, wfac)
push_full(f, config, cfac, wfac) ==
    IF ~InAxis(f.step, f.nprop_tot)
    THEN [f EXCEPT !.err = "IndexError", !.nfull = @ + 1]
    ELSE advance_step([f EXCEPT
                         !.configs[AxisIndex(f.step, f.nprop_tot)] =
                             [c \in 1..f.nfields |-> config],
                         !.cos_fac[AxisIndex(f.step, f.nprop_tot)] = cfac,
                         !.weight_fac[AxisIndex(f.step, f.nprop_tot)] = wfac,
                         !.nfull = @ + 1])

\* Walkers.add_field_config: nprop_tot propagators are kept, nbp of them
\* make a back propagation block
InitField ==
    /\ CombIdle
    /\ PropIdle
    /\ PhaseIdle
    /\ BPIdle
    /\ \E nfields \in 1..MaxFields : \E nbp \in 1..MaxPropTot :
          \E nprop_tot \in nbp..MaxPropTot :
             fc = NewFieldConfig(nfields, nprop_tot, nbp)

\* a[start:end] of numpy on an axis of length n: a negative bound counts
\* from the end, and both bounds are clipped to the axis
SliceBound(i, n) ==
    IF i < 0 THEN (IF i + n < 0 THEN 0 ELSE i + n)
    ELSE IF i > n THEN n ELSE i
Slice(a, start, end) ==
    [k \in 1..(IF SliceBound(end, Len(a)) > SliceBound(start, Len(a))
               THEN SliceBound(end, Len(a)) - SliceBound(start, Len(a))
               ELSE 0) |-> a[SliceBound(start, Len(a)) + k]]

\* FieldConfig.get_block()
get_block(f) ==
    <<Slice(f.configs, f.block * f.nbp, (f.block + 1) * f.nbp),
      Slice(f.cos_fac, f.block * f.nbp, (f.block + 1) * f.nbp),
      Slice(f.weight_fac, f.block * f.nbp, (f.block + 1) * f.nbp)>>

\* the number of the next call
NextCall == fc.npush + fc.nfull + 1

\* g is f after a call; done lists the configurations completed so far, each
\* as the row it was when its last value was stored
Stored(f, g, completes) ==
    [g EXCEPT !.done = IF completes /\ g.err = None
                       THEN Append(@, g.configs[f.step + 1]) ELSE @]

CanPush == fc.err = None /\ NextCall <= MaxPush

Push ==
    /\ CanPush
    /\ fc' = Stored(fc, push(fc, NextCall), (fc.npush + 1) % fc.nfields = 0)
    /\ UNCHANGED <<cvars, pw, trial, perr, plast, hist, free_projection, h5,
                   ph, bp>>

PushFull ==
    /\ CanPush
    /\ fc' = Stored(fc, push_full(fc, NextCall, NextCall, NextCall), TRUE)
    /\ UNCHANGED <<cvars, pw, trial, perr, plast, hist, free_projection, h5,
                   ph, bp>>

NextField ==
    \/ Push
    \/ PushFull

SpecField == InitField /\ [][NextField]_vars

-----------------------------------------------------------------------------
(* Claims about FieldConfig *)

FieldRanges ==
    /\ fc.err = None
    /\ 0 <= fc.step /\ fc.step < fc.nprop_tot
    /\ 0 <= fc.ib /\ fc.ib < fc.nfields
    /\ -1 <= fc.block /\ fc.block < fc.nblock
    /\ DOMAIN fc.configs = 1..fc.nprop_tot
    /\ \A r \in 1..fc.nprop_tot : DOMAIN fc.configs[r] = 1..fc.nfields

\* the call of this step is a push (a push_full)
IsPush == fc'.npush = fc.npush + 1
IsPushFull == fc'.nfull = fc.nfull + 1

\* the call of this step stores the last value of a configuration
Completes == IsPushFull \/ (IsPush /\ fc'.npush % fc.nfields = 0)

FieldStep ==
    /\ IsPush =>
          /\ fc'.configs = [fc.configs EXCEPT ![fc.step + 1][fc.ib + 1] = NextCall]
          /\ fc'.cos_fac = fc.cos_fac
          /\ fc'.weight_fac = fc.weight_fac
    /\ IsPushFull =>
          /\ fc'.configs = [fc.configs EXCEPT ![fc.step + 1] =
                               [c \in 1..fc.nfields |-> NextCall]]
          /\ fc'.cos_fac = [fc.cos_fac EXCEPT ![fc.step + 1] = NextCall]
          /\ fc'.weight_fac = [fc.weight_fac EXCEPT ![fc.step + 1] = NextCall]
    /\ fc'.step = IF Completes THEN (fc.step + 1) % fc.nprop_tot ELSE fc.step
    /\ fc'.block = IF Completes /\ fc'.step % fc.nbp = 0
                   THEN (fc.block + 1) % fc.nblock
                   ELSE fc.block

\* C20: after any sequence of push and push_full calls (nprop_tot >= nbp >= 1,
\* nfields >= 1) no call has raised, 0 <= step < nprop_tot, 0 <= ib < nfields
\* and -1 <= block < nblock; a push writes its value at row step, column ib,
\* a push_full writes row step, and nothing else in the buffers changes; step
\* advances by one modulo nprop_tot exactly when the call completes a
\* configuration (every nfields-th push, every push_full); block advances by
\* one modulo nblock exactly when the step has advanced to a multiple of nbp.
C20_RingIndicesInRange == []FieldRanges /\ [][FieldStep]_vars

C20_Witness ==
    /\ fc.npush + fc.nfull = MaxPush
    /\ fc.nfields = 2
    /\ fc.nprop_tot = 3
    /\ fc.nbp = 2
    /\ fc.npush = 4
    /\ fc.step = 1
    /\ fc.ib = 0
    /\ fc.block = 0

-----------------------------------------------------------------------------
(* The phaseless reweighting of the continuous field schemes               *)
(*                                                                         *)
(* An overlap is a complex number in polar form: ot is its direction, a    *)
(* multiple of 1/Directions of a full turn, and otm its modulus.  ph holds *)
(* the weight, the overlap, the number of reweightings made, and the       *)
(* rotation and the factor of the last one.                                *)

Directions == 12
MaxOverlap == 2
MaxPhaseSteps == 2

\* cmath works in radians
Pi == <<355, 113>>

\* ot_new / walker.ot: the directions subtract
overlap_ratio(ot_new, ot) == (ot_new - ot) % Directions

\* the direction k as a signed number of steps in (-Directions/2, Directions/2]
signed_turn(k) == IF 2 * k > Directions THEN k - Directions ELSE k

\* cmath.phase(z): the angle of z in radians, in (-pi, pi]
phase(k) == RMul(RNorm(2 * signed_turn(k), Directions), Pi)

\* max(0, dtheta)
max0(dtheta) == IF RLt(Zero, dtheta) THEN dtheta ELSE Zero

\* exp(-0.5*dt*(walker.E_L - E_L)) is a positive real
EnergyFactors == {RNorm(1, 2), R(1), R(2)}

\* lines 89-94 of continuous_hubbard and 132-137 of generic_continuous, with
\* efac the exponential of the local energy difference
phaseless_reweight(w, ot_new, otm_new, efac) ==
    [w EXCEPT !.weight = RMul(RMul(w.weight, efac),
                              max0(phase(overlap_ratio(ot_new, w.ot)))),
              !.ot = ot_new,
              !.otm = otm_new,
              !.n = w.n + 1,
              !.rot = signed_turn(overlap_ratio(ot_new, w.ot)),
              !.factor = max0(phase(overlap_ratio(ot_new, w.ot)))]

InitPhase ==
    /\ CombIdle
    /\ PropIdle
    /\ FieldIdle
    /\ BPIdle
    /\ \E ot \in 0..(Directions - 1) : \E otm \in 1..MaxOverlap :
          ph = [weight |-> R(1), ot |-> ot, otm |-> otm, n |-> 0, rot |-> 0,
                factor |-> R(1)]

Reweight ==
    /\ ph.n < MaxPhaseSteps
    /\ \E ot_new \in 0..(Directions - 1) : \E otm_new \in 1..MaxOverlap :
          \E efac \in EnergyFactors :
             ph' = phaseless_reweight(ph, ot_new, otm_new, efac)
    /\ UNCHANGED <<cvars, pw, trial, perr, plast, hist, free_projection, h5,
                   fc, bp>>

NextPhase == Reweight

SpecPhase == InitPhase /\ [][NextPhase]_vars

-----------------------------------------------------------------------------
(* Claims about the phaseless reweighting *)

\* the last rotation of the overlap is of more (less) than a quarter turn
RotatedBeyond90 == 4 * Abs(ph.rot) > Directions
RotatedWithin90 == 4 * Abs(ph.rot) < Directions

\* C19: the phase factor applied to the weight is zero exactly when the
\* overlap phase has rotated by more than 90 degrees in either direction, and
\* is strictly positive and at most 1 for every smaller rotation, negative
\* rotations included.
C19_PhaseFactorIsClampedCosine ==
    ph.n > 0 =>
       /\ RotatedBeyond90 => ph.factor = Zero
       /\ RotatedWithin90 => RLt(Zero, ph.factor) /\ ~RLt(R(1), ph.factor)

-----------------------------------------------------------------------------
(* BackPropagation.update_uhf over the walkers of one rank                 *)
(*                                                                         *)
(* A wavefunction is the sequence of the fields applied to its origin (0   *)
(* the trial, j walker j).  A walker has phi, phi_old (an address into     *)
(* store, as above), the fields pushed since the last reset, and start,    *)
(* the phi it had when the present window began.  bp holds the simulation  *)
(* step, the estimator (nmax, the array phi_bp and whether it is the array *)
(* of trial.psi, the accumulated estimates), the position in update_uhf    *)
(* (pc, i), and for the claims the walkers as they were when the loop was  *)
(* entered (window) and the G computed for each walker (Gs).               *)

BPWalkers == 2
MaxBPSteps == 4
MaxNmax == 2
FieldVals == 2

Psi0 == <<0>>

BPWalker(j) ==
    [phi |-> <<j>>, phi_old |-> 1, store |-> <<(<<j>>)>>, fields |-> <<>>,
     weight |-> 1, start |-> <<j>>]

\* one propagation step of a walker with the auxiliary field x: the
\* propagator acts on phi and the field is pushed to the history
propagate_walker(w, x) ==
    [w EXCEPT !.phi = Append(@, x), !.fields = Append(@, x)]

\* mutant: phi_bp = trial.psi, without the copy
bind_psi(b) == [b EXCEPT !.phi_bp = b.psi, !.aliased = TRUE]

\* line 129: phi_bp = trial.psi.copy()
copy_psi(b) == [b EXCEPT !.phi_bp = b.psi, !.aliased = FALSE]

Reverse(q) == [k \in 1..Len(q) |-> q[Len(q) + 1 - k]]

\* self.back_propagate(phi_bp, wnm.field_configs, ...): the propagators of
\* the window are applied to phi_bp in place, the last one first
back_propagate(b, fields) ==
    [b EXCEPT !.phi_bp = @ \o Reverse(fields),
              !.psi = IF b.aliased THEN @ \o Reverse(fields) ELSE @]

\* gab(A, B): the Green's function of the bra A and the ket B
gab(A, B) == <<A, B>>

\* wnm.field_configs.reset()
reset_fields(w) == [w EXCEPT !.fields = <<>>]

\* lines 133-158 for walker i: G from phi_bp and phi_old, and the estimates
accumulate(b, i) ==
    [b EXCEPT !.est = Append(@, <<b.walkers[i].weight,
                                  gab(b.phi_bp, Deref(b.walkers[i],
                                                      b.walkers[i].phi_old))>>),
              !.Gs = Append(@, gab(b.phi_bp, Deref(b.walkers[i],
                                                   b.walkers[i].phi_old)))]

\* lines 129-159: one round of the loop, for walker i
update_walker(b, i) ==
    [accumulate(back_propagate(copy_psi(b), b.walkers[i].fields), i)
        EXCEPT !.walkers[i] = reset_fields(@), !.i = i + 1]

InitBP ==
    /\ CombIdle
    /\ PropIdle
    /\ PhaseIdle
    /\ FieldIdle
    /\ \E nmax \in 1..MaxNmax : \E rank \in 0..1 :
          \E type \in {"UHF", "GHF"} :
             bp = [step |-> 0, nmax |-> nmax, psi |-> Psi0, phi_bp |-> Psi0,
                   aliased |-> FALSE,
                   walkers |-> [j \in 1..BPWalkers |-> BPWalker(j)],
                   pc |-> "prop", i |-> 0, est |-> <<>>, Gs |-> <<>>,
                   window |-> [j \in 1..BPWalkers |-> BPWalker(j)],
                   after |-> FALSE,
                   rank |-> rank, type |-> type, gest |-> <<>>, out |-> <<>>]

BPUnchanged ==
    UNCHANGED <<cvars, pw, trial, perr, plast, hist, free_projection, h5,
                ph, fc>>

\* one step of the simulation: every walker is propagated, then the
\* estimators are updated with the number of the step
PropagateStep ==
    /\ bp.pc = "prop"
    /\ bp.step < MaxBPSteps
    /\ \E x \in [1..BPWalkers -> 1..FieldVals] :
          bp' = [bp EXCEPT !.walkers = [j \in 1..BPWalkers |->
                                          propagate_walker(bp.walkers[j], x[j])],
                           !.step = @ + 1,
                           !.pc = "update",
                           !.after = FALSE]
    /\ BPUnchanged

\* self.update (lines 95-99) is called: update_uhf, lines 125-127, or
\* update_ghf, lines 180-183, which leaves the program on a step it acts on
UpdateCall ==
    /\ bp.pc = "update"
    /\ bp' = IF bp.step % bp.nmax # 0
             THEN [bp EXCEPT !.pc = "print"]
             ELSE IF bp.type = "GHF"
             THEN [bp EXCEPT !.pc = "exit"]
             ELSE [bp EXCEPT !.pc = "loop", !.i = 1, !.Gs = <<>>,
                             !.window = bp.walkers]
    /\ BPUnchanged

\* update_uhf, lines 128-159 for the next walker
UpdateWalker ==
    /\ bp.pc = "loop"
    /\ bp.i <= BPWalkers
    /\ bp' = update_walker(bp, bp.i)
    /\ BPUnchanged

\* update_uhf, line 160: psi.copy_historic_wfn(), and the return
UpdateReturn ==
    /\ bp.pc = "loop"
    /\ bp.i > BPWalkers
    /\ bp' = [bp EXCEPT !.walkers = [j \in 1..BPWalkers |->
                                       [copy_historic_wfn(bp.walkers[j])
                                           EXCEPT !.start = bp.walkers[j].phi]],
                        !.pc = "print",
                        !.after = TRUE]
    /\ BPUnchanged

\* mutant: the estimates are not zeroed after they were emitted
print_step_keep(b) ==
    IF b.step # 0 /\ b.step % b.nmax = 0
    THEN [b EXCEPT !.gest = IF b.rank = 0 THEN b.est ELSE @,
                   !.out = IF b.rank = 0 THEN Append(@, b.est) ELSE @]
    ELSE b

\* print_step and zero: comm.Reduce leaves the sum of the estimates of the
\* ranks in global_estimates of rank 0 (of the ranks, this one is modelled),
\* rank 0 writes it out, and every rank zeroes both arrays
print_step(b) ==
    IF b.step # 0 /\ b.step % b.nmax = 0
    THEN [b EXCEPT !.est = <<>>,
                   !.gest = <<>>,
                   !.out = IF b.rank = 0 THEN Append(@, b.est) ELSE @]
    ELSE b

\* the estimators are printed with the number of the step
PrintStep ==
    /\ bp.pc = "print"
    /\ bp' = [print_step(bp) EXCEPT !.pc = "prop"]
    /\ BPUnchanged

NextBP ==
    \/ PropagateStep
    \/ UpdateCall
    \/ UpdateWalker
    \/ UpdateReturn
    \/ PrintStep

SpecBP == InitBP /\ [][NextBP]_vars

-----------------------------------------------------------------------------
(* Claims about update_uhf *)

PhiOld(w) == Deref(w, w.phi_old)

\* the G of every walker processed so far was computed from a bra that is
\* the trial back propagated over the walker's fields of the window, and
\* from the walker's phi of the start of the window as the ket
GreensOfWindow ==
    \A j \in 1..Len(bp.Gs) :
       bp.Gs[j] = <<Psi0 \o Reverse(bp.window[j].fields), bp.window[j].start>>

TrialUnchanged == bp.psi = Psi0

\* update_uhf has returned from a reconstruction: every history is empty
\* and phi_old is the present phi
AfterReconstruction ==
    bp.after =>
       /\ Len(bp.Gs) = BPWalkers
       /\ \A j \in 1..BPWalkers :
             bp.walkers[j].fields = <<>> /\ PhiOld(bp.walkers[j]) = bp.walkers[j].phi

\* while a reconstruction is under way no phi_old has been overwritten
PhiOldKept ==
    bp.pc = "loop" =>
       \A j \in 1..BPWalkers : PhiOld(bp.walkers[j]) = bp.walkers[j].start

\* C18 as stated: on a reconstruction step each walker's G is computed
\* against its phi_old of the start of the window from a private copy of
\* trial.psi, trial.psi is unchanged, and only after every walker has been
\* processed is any walker's field history reset and any phi_old set to phi.
C18_ResetAfterEveryWalker ==
    /\ GreensOfWindow
    /\ TrialUnchanged
    /\ PhiOldKept
    /\ AfterReconstruction
    /\ (bp.pc = "loop" /\ bp.i <= BPWalkers) =>
          \A j \in 1..BPWalkers : bp.walkers[j].fields = bp.window[j].fields

\* C18 amended: on a reconstruction step each walker's G is computed against
\* its phi_old of the start of the window from a private copy of trial.psi,
\* and trial.psi is unchanged; a walker's field history is reset as soon as
\* that walker has been processed, and is untouched until then; only after
\* every walker has been processed is any phi_old set to phi.
C18_ResetPerWalkerSnapshotAfterAll ==
    /\ GreensOfWindow
    /\ TrialUnchanged
    /\ PhiOldKept
    /\ AfterReconstruction
    /\ bp.pc = "loop" =>
          \A j \in 1..BPWalkers :
             bp.walkers[j].fields =
                IF j < bp.i THEN <<>> ELSE bp.window[j].fields

\* the second window of two steps has been reconstructed
C18_Witness ==
    /\ bp.after
    /\ bp.nmax = 2
    /\ bp.step = 4
    /\ bp.type = "UHF"
    /\ Len(bp.est) = BPWalkers
    /\ bp.Gs[1] = <<(<<0, 2, 1>>), (<<1, 1, 1>>)>>
    /\ bp.walkers[1].phi = <<1, 1, 1, 1, 2>>
    /\ PhiOld(bp.walkers[1]) = <<1, 1, 1, 1, 2>>

-----------------------------------------------------------------------------
(* Claims about FieldConfig.get_block *)

\* the last n entries of q
LastOf(q, n) == [k \in 1..n |-> q[Len(q) - n + k]]

\* a block has just been completed: the last call completed a configuration,
\* at least nbp configurations are stored and step is a multiple of nbp
BlockJustCompleted ==
    /\ fc.npush + fc.nfull > 0
    /\ fc.ib = 0
    /\ Len(fc.done) >= fc.nbp
    /\ fc.step % fc.nbp = 0

\* C26: when a back-propagation block has just been completed, get_block
\* returns exactly the nbp configurations stored last, in the order they were
\* stored, for every nprop_tot >= nbp; before the first block completes it
\* returns an empty block.
C26_GetBlockIsLatestBlock ==
    /\ BlockJustCompleted => get_block(fc)[1] = LastOf(fc.done, fc.nbp)
    /\ Len(fc.done) < fc.nbp => get_block(fc)[1] = <<>>

-----------------------------------------------------------------------------
(* Claims about the steps on which the back propagated estimates are made *)

\* every estimate written out holds the contributions of the walkers of one
\* reconstruction, and between steps one has been written for every multiple
\* of nmax passed
OneReconstructionEach ==
    /\ \A k \in 1..Len(bp.out) : Len(bp.out[k]) = BPWalkers
    /\ (bp.pc = "prop" /\ bp.rank = 0) => Len(bp.out) = bp.step \div bp.nmax
    /\ bp.rank # 0 => bp.out = <<>>
    /\ bp.pc = "prop" => (bp.est = <<>> /\ bp.gest = <<>>) \/ bp.step < bp.nmax

OnMultiple == bp.step % bp.nmax = 0

UpdateGated ==
    bp.pc = "update" =>
       IF OnMultiple THEN bp'.pc \in {"loop", "exit"}
       ELSE /\ bp'.est = bp.est
            /\ bp'.walkers = bp.walkers
            /\ bp'.pc = "print"

PrintGated ==
    bp.pc = "print" =>
       IF bp.step # 0 /\ OnMultiple
       THEN /\ bp'.est = <<>>
            /\ bp'.gest = <<>>
            /\ bp.rank = 0 => bp'.out = Append(bp.out, bp.est)
       ELSE /\ bp'.est = bp.est
            /\ bp'.gest = bp.gest
            /\ bp'.out = bp.out

\* C25: update_uhf and update_ghf act only on steps that are multiples of
\* nmax and on every other step return with the estimates, the field
\* histories and every phi_old unchanged; print_step writes out and then
\* zeroes the local and the global estimates, on every rank, only on non-zero
\* multiples of nmax and leaves them unchanged otherwise; over the steps 1, 2,
\* 3, ... each estimate written out holds exactly one reconstruction.
C25_ActsOnMultiplesOfNmax ==
    []OneReconstructionEach /\ [][UpdateGated /\ PrintGated]_vars

\* two windows of two steps have been written out by rank 0
C25_Witness ==
    /\ bp.type = "UHF"
    /\ bp.rank = 0
    /\ bp.nmax = 2
    /\ bp.step = 4
    /\ bp.pc = "prop"
    /\ Len(bp.out) = 2
    /\ bp.est = <<>>

-----------------------------------------------------------------------------
(* Claims about kinetic_direct *)

\* the last call was kinetic_direct, on the walker plast.before
KineticCalled == plast.op = "kinetic"

\* the overlap of the walker as it is now, and its ratio to the one before
\* the call
OtNow == RMul(Overlap(trial, TheWalker.phi[1]), Overlap(trial, TheWalker.phi[2]))
RatioNow == RDiv(OtNow, plast.before.ot)

\* phi is bt2 times the phi before the call
PhiMoved ==
    \A s \in Spin : \A i \in Sites :
       TheWalker.phi[s][i] = Dot(bt2[i], plast.before.phi[s])

-----------------------------------------------------------------------------
(* Walkers.orthogonalise over the walker classes of walker.py              *)
(*                                                                         *)
(* The walker carries its class in the field type.  One determinant in the *)
(* trial (ndets = 1, coefficient 1), so that the three classes differ in   *)
(* what reortho updates and returns, not in the shape of phi.              *)

WalkerTypes == {"Walker", "MultiDetWalker", "MultiGHFWalker"}

\* the constructors: Walker sets ot = 1.0, the other two ot = calc_otrial
TypedWalker(type, phi, psi) ==
    [type |-> type] @@
    [NewWalker(phi, psi) EXCEPT
        !.ot = IF type = "Walker" THEN @
               ELSE calc_otrial(<<RInv(Overlap(psi, phi[1])),
                                  RInv(Overlap(psi, phi[2]))>>)]

\* MultiGHFWalker.reortho, lines 366-367, given what inverse_overlap did
reortho_ghf_inverted(w, io) ==
    IF io.err # None
    THEN [w |-> [w EXCEPT !.inv_ovlp = io.inv_ovlp], ret |-> <<>>,
          err |-> io.err]
    ELSE [w |-> [w EXCEPT !.inv_ovlp = io.inv_ovlp,
                          !.ot = calc_otrial(io.inv_ovlp)],
          ret |-> <<>>, err |-> None]

\* reortho of the class of w: the walker, the value returned (<<>> for
\* None) and the exception.  Walker.reortho returns detR; the other two
\* end without a return statement.
reortho_typed(w, psi) ==
    IF w.type = "Walker"
    THEN [w |-> reortho(w).w, ret |-> reortho(w).detR, err |-> None]
    ELSE IF w.type = "MultiDetWalker"
    THEN [w |-> reortho(w).w, ret |-> <<>>, err |-> None]
    ELSE reortho_ghf_inverted([w EXCEPT !.phi = reortho(w).w.phi],
                              inverse_overlap([w EXCEPT !.phi = reortho(w).w.phi],
                                              psi))

\* Walkers.orthogonalise for one walker, given what reortho did:
\* cmath.polar(None) raises TypeError
orthogonalise_typed(ro, fp) ==
    IF ro.err # None \/ ~fp THEN ro
    ELSE IF ro.ret = <<>> THEN [ro EXCEPT !.err = "TypeError"]
    ELSE [ro EXCEPT !.w = orthogonalise_with([w |-> ro.w, detR |-> ro.ret], fp)]

InitOrtho ==
    /\ CombIdle
    /\ PhaseIdle
    /\ FieldIdle
    /\ BPIdle
    /\ h5 = <<>>
    /\ trial \in TrialVals
    /\ free_projection \in BOOLEAN
    /\ \E type \in WalkerTypes : \E u, v \in PhiVals \cup {trial} :
          /\ Overlap(trial, u) # Zero
          /\ Overlap(trial, v) # Zero
          /\ pw = <<TypedWalker(type, <<u, v>>, trial)>>
    /\ plast = Call("init", pw[1], 0, pw[1])
    /\ perr = None
    /\ hist = <<>>

OrthogonaliseTyped ==
    /\ CanCall
    /\ \E res \in {orthogonalise_typed(reortho_typed(pw[1], trial),
                                       free_projection)} :
          ReturnedWith("orthogonalise", res.w, res.err, res.ret)
    /\ UNCHANGED h5

NextOrtho == OrthogonaliseTyped

SpecOrtho == InitOrtho /\ [][NextOrtho]_vars

-----------------------------------------------------------------------------
(* Claims about reortho and orthogonalise *)

\* the determinant of the sign-canonicalised R of the phi before the call
DetRBefore ==
    RMul(ColNorm(plast.before.phi[1]), ColNorm(plast.before.phi[2]))

\* C21: for every walker class reortho returns the determinant of the
\* sign-canonicalised R and leaves ot equal to the previous ot divided by it,
\* so that orthogonalise with free projection folds the returned value into
\* weight and phase (without raising), and without free projection leaves
\* weight and phase unchanged.
C21_ReorthoReturnsDeterminant ==
    plast.op = "orthogonalise" =>
       /\ perr = None
       /\ plast.arg = DetRBefore
       /\ RMul(TheWalker.ot, DetRBefore) = plast.before.ot
       /\ TheWalker.phase = plast.before.phase
       /\ TheWalker.weight = IF free_projection
                             THEN RMul(plast.before.weight, DetRBefore)
                             ELSE plast.before.weight

-----------------------------------------------------------------------------
(* Walkers.comb on a population in which a walker may be dead               *)
(*                                                                         *)
(* The walker classes the handler builds set the alive flag; a walker is   *)
(* dead once its weight has been forced to 0.  Walkers.__init__ counts the *)
(* flags into nw, while comb gathers len(self.walkers) weights per rank.   *)

\* Walkers.__init__ on every rank of an MPI communicator, for walkers that
\* carry a weight and an alive flag; every rank holds a walker that is alive
\* (with nw = 0 the address i//self.nw raises ZeroDivisionError)
InitAlive ==
    /\ PropIdle
    /\ PhaseIdle
    /\ FieldIdle
    /\ BPIdle
    /\ size \in 1..NRanks
    /\ nwalkers \in 2..NWalkers
    /\ size * nwalkers <= MaxTotWalkers
    /\ fake = FALSE
    /\ \E wts \in [0..(size * nwalkers - 1) -> {k * One : k \in 0..MaxWeight}] :
       \E alv \in [0..(size * nwalkers - 1) -> BOOLEAN] :
          /\ \A g \in DOMAIN wts : wts[g] # 0 => alv[g]
          /\ walkers = [k \in 0..(size - 1) |->
                          [i \in 1..nwalkers |->
                             [weight |-> wts[k * nwalkers + i - 1],
                              id |-> k * nwalkers + i - 1,
                              total_weight |-> ntot_walkers * One,
                              alive |-> alv[k * nwalkers + i - 1]]]]
    /\ nw = [k \in 0..(size - 1) |-> calculate_nwalkers(walkers[k])]
    /\ \A k \in 0..(size - 1) : nw[k] >= 1
    /\ pc = [k \in 0..(size - 1) |-> "idle"]
    /\ gathered = [k \in 0..(size - 1) |-> <<>>]
    /\ bc = [set |-> FALSE, parent_ix |-> <<>>, total_weight |-> 0]
    /\ rdraw = -1
    /\ pix = [k \in 0..(size - 1) |-> <<>>]
    /\ msgs = {}
    /\ wbufs = [k \in 0..(size - 1) |-> <<>>]
    /\ ri = [k \in 0..(size - 1) |-> 0]
    /\ pre = [k \in 0..(size - 1) |-> <<>>]
    /\ nsent = [k \in 0..(size - 1) |-> 0]

\* comb, line 225: comm.recv(source=s[0], tag=i) with a source that is no
\* rank of the communicator raises
RecvInvalidSource(k) ==
    /\ pc[k] = "recv"
    /\ ~fake
    /\ LET prs == Pairs(pix[k], nw[k])
           i == NextMine(prs, k, ri[k])
       IN  /\ i < Len(prs)
           /\ prs[i + 1].s[1] >= size
           /\ ri' = [ri EXCEPT ![k] = i]
    /\ pc' = [pc EXCEPT ![k] = "MPIError"]
    /\ UNCHANGED <<size, nwalkers, fake, walkers, nw, gathered, bc, rdraw,
                   pix, msgs, wbufs, pre, nsent, pvars>>

NextAlive ==
    \/ \E k \in ActiveRanks : CombStart(k)
    \/ RootBranch
    \/ \E k \in ActiveRanks : AfterBcast(k)
    \/ \E k \in ActiveRanks : RecvStep(k)
    \/ \E k \in ActiveRanks : RecvInvalidSource(k)
    \/ \E k \in ActiveRanks : WaitSends(k)
    \/ \E k \in ActiveRanks : BarrierReset(k)

SpecAlive == InitAlive /\ [][NextAlive]_vars

-----------------------------------------------------------------------------
(* Claims about the addresses of comb *)

\* the slots of rank k whose multiplicity is 0 and that no pair has filled
Unfilled(k) ==
    {i \in 1..nwalkers :
        /\ pix[k][k * nwalkers + i] = 0
        /\ walkers[k][i].id = pre[k][i].id}

\* C27: in comb, position g of the gathered weights and of the parent
\* assignment and the address (g div nw, g mod nw) denote slot g mod nwalkers
\* of rank g div nwalkers, and ntarget = nw * size is the number of gathered
\* walkers, also when a walker was dead when nw was computed; the send and
\* receive lists have the same length, and a rank that has reset its weights
\* has no multiplicity-0 slot left unfilled.
C27_AddressesDenoteGatheredWalkers ==
    \A k \in ActiveRanks : (ntot_walkers > 1 /\ pix[k] # <<>>) =>
       /\ Len(pix[k]) = Len(GlobalWeights)
       /\ nw[0] * size = Len(GlobalWeights)
       /\ \A g \in 0..(Len(pix[k]) - 1) :
             Address(g, nw[k]) = <<g \div nwalkers, g % nwalkers>>
       /\ Exchanging(k) =>
             Len(SendList(pix[k], nw[k])) = Len(RecvList(pix[k], nw[k]))
       /\ pc[k] = "done" => Unfilled(k) = {}

-----------------------------------------------------------------------------
(* Claims about the termination of the exchange *)

\* rank j has taken the message of pair i (from 1)
Taken(i) ==
    \/ pc[PassPairs[i].r[1]] \in {"barrier", "done"}
    \/ pc[PassPairs[i].r[1]] = "recv" /\ ri[PassPairs[i].r[1]] >= i

\* the messages in flight that match the receive of pair i
Matching(i) ==
    {m \in msgs : /\ m.src = PassPairs[i].s[1]
                  /\ m.dst = PassPairs[i].r[1]
                  /\ m.tag = i - 1}

\* rank k has no receive left in its loop
ReceivesOver(k) ==
    /\ pc[k] \in {"recv", "barrier", "done"}
    /\ NextMine(PassPairs, k, ri[k]) >= Len(PassPairs)

\* a rank in its receive loop has posted every one of its sends; the send of
\* a pair is in flight, once, from when its source has posted it until its
\* destination has taken it; a rank has reset its weights only when every
\* rank has finished its receives
ExchangeSafe ==
    (bc.set /\ ntot_walkers > 1 /\ ~fake) =>
        /\ \A k \in ActiveRanks : Exchanging(k) =>
              nsent[k] = Cardinality(MySends(PassPairs, k))
        /\ \A i \in 1..Len(PassPairs) :
              /\ PassPairs[i].s[1] \in ActiveRanks
              /\ PassPairs[i].r[1] \in ActiveRanks
              /\ Cardinality(Matching(i)) =
                    IF Exchanging(PassPairs[i].s[1]) /\ ~Taken(i)
                    THEN 1 ELSE 0
        /\ \A m \in msgs : m \in Matching(m.tag + 1)
        /\ \A k \in ActiveRanks : pc[k] = "done" =>
              \A j \in ActiveRanks : ReceivesOver(j) /\ pc[j] # "recv"

\* C23: the exchange of comb cannot deadlock: every rank posts all of its
\* sends before its first receive, every receive is matched by exactly one
\* send with the same source, destination and tag (also from a rank to
\* itself), no rank resets its weights before every rank has finished its
\* receives, and once the parent assignment is broadcast every rank
\* eventually passes the Barrier and returns.
C23_ExchangeTerminates ==
    /\ []ExchangeSafe
    /\ (bc.set ~> AllDone)

C23_Witness ==
    /\ AllDone
    /\ size = 2
    /\ ~fake
    /\ Len(PassPairs) = 2
    /\ PassPairs[1].s[1] = PassPairs[1].r[1]
    /\ PassPairs[2].s[1] # PassPairs[2].r[1]

=============================================================================
